---- MODULE Spec2Model ----
(***************************************************************************)
(* Lot accounting engine of sol-cgt: the lot ledger, the allocation        *)
(* strategy (FIFO, LIFO, HIFO, SPECIFIC) and AccountingEngine.process(),   *)
(* and the transfer reconciler detect_self_transfers().                    *)
(*                                                                         *)
(* Numbers.  Money is counted in cents.  Values that the code rounds with  *)
(* quantize_aud are integers; values it leaves unrounded (a lot's          *)
(* fees_aud, cost_base_aud) are exact fractions <<numerator, denominator>>.*)
(* A quantity is the integer amount_raw of a TokenAmount, in units of      *)
(* 10^-decimals of its mint.  Timestamps are whole days.  A fee_sol is     *)
(* counted in thousandths of a SOL and a SOL price in whole AUD.           *)
(***************************************************************************)
EXTENDS Integers, Naturals, Sequences, FiniteSets, TLC

VARIABLES method, strict_lots, external_lot_tracking, specific,
          lots, ledger, acquisitions, disposals, lot_moves, warnings,
          missing_lot_issues, events, status, partial_result,
          transfers, returned

vars == <<method, strict_lots, external_lot_tracking, specific,
          lots, ledger, acquisitions, disposals, lot_moves, warnings,
          missing_lot_issues, events, status, partial_result,
          transfers, returned>>

(***************************************************************************)
(* Bounds of the model.                                                    *)
(***************************************************************************)
MaxEvents == 3
MaxPlanLen == 2

(***************************************************************************)
(* Inputs.                                                                 *)
(***************************************************************************)
Wallets == {"W1", "W2"}
External == "EXT"
NoCounterparty == "none"
Mints == {"TOKENX", "FINE"}
None == -1
NoToken == [mint |-> "none", amount |-> 0]
Methods == {"FIFO", "LIFO", "HIFO", "SPECIFIC"}

\* TokenAmount.decimals of the two mints
Decimals(mint) == IF mint = "FINE" THEN 10 ELSE 0

\* the amount_raw of the tokens of the events
Amounts(mint) == IF mint = "FINE" THEN {1, 16} ELSE {1, 2}

(***************************************************************************)
(* Arithmetic.                                                             *)
(***************************************************************************)
Abs(x) == IF x < 0 THEN 0 - x ELSE x

Min(a, b) == IF a <= b THEN a ELSE b

RECURSIVE Pow10(_)
Pow10(k) == IF k = 0 THEN 1 ELSE 10 * Pow10(k - 1)

RECURSIVE Gcd(_, _)
Gcd(a, b) == IF b = 0 THEN a ELSE Gcd(b, a % b)

\* the fraction n/d (d > 0) in lowest terms
Frac(n, d) ==
    IF n = 0 THEN <<0, 1>>
    ELSE LET g == Gcd(Abs(n), d) IN <<n \div g, d \div g>>

FInt(n) == <<n, 1>>
FAdd(a, b) == Frac(a[1] * b[2] + b[1] * a[2], a[2] * b[2])
FSub(a, b) == Frac(a[1] * b[2] - b[1] * a[2], a[2] * b[2])
FMul(a, b) == Frac(a[1] * b[1], a[2] * b[2])
FLess(a, b) == a[1] * b[2] < b[1] * a[2]

RECURSIVE FSum(_)
FSum(s) == IF s = <<>> THEN FInt(0) ELSE FAdd(Head(s), FSum(Tail(s)))

RECURSIVE Sum(_)
Sum(s) == IF s = <<>> THEN 0 ELSE Head(s) + Sum(Tail(s))

\* Decimal.quantize under ROUND_HALF_EVEN: the integer nearest to n/d (d > 0)
RoundHalfEven(n, d) ==
    LET q == n \div d
        r == n % d
    IN  IF 2 * r < d THEN q
        ELSE IF 2 * r > d THEN q + 1
        ELSE IF q % 2 = 0 THEN q ELSE q + 1

\* utils.quantize_aud on a fraction of cents
quantize_aud(f) == RoundHalfEven(f[1], f[2])

\* Decimal.quantize(Decimal("0.000000001")) on a raw quantity of the mint
Quantize9(x, mint) ==
    IF Decimals(mint) <= 9 THEN x
    ELSE LET f == Pow10(Decimals(mint) - 9) IN RoundHalfEven(x, f) * f

(***************************************************************************)
(* Lot identifiers.  An event id is the string "e<k>" and is written k.    *)
(* A lot_id is the sequence of its parts and is ordered as the string it   *)
(* stands for: "<event>:<mint>", "<lot_id>:move:<event>" and               *)
(* "synthetic:<event>:<mint>" ("s" sorts after "e").                       *)
(***************************************************************************)
MintCode(mint) == IF mint = "FINE" THEN 1 ELSE 2
MoveMark == 50
SyntheticMark == 100
AbsentLotId == <<0>>

\* a moved lot named after the transfer alone, "move:<event>"
MoveLotIdOfEvent(lot_id, event_id) == <<MoveMark, event_id>>

AcquisitionLotId(event_id, mint) == <<event_id, MintCode(mint)>>
MoveLotId(lot_id, event_id) == lot_id \o <<MoveMark, event_id>>
SyntheticLotId(event_id, mint) == <<SyntheticMark, event_id, MintCode(mint)>>

RECURSIVE LotIdLess(_, _)
LotIdLess(a, b) ==
    IF b = <<>> THEN FALSE
    ELSE IF a = <<>> THEN TRUE
    ELSE IF Head(a) # Head(b) THEN Head(a) < Head(b)
    ELSE LotIdLess(Tail(a), Tail(b))

(***************************************************************************)
(* LotLedger.  lots is the heap of AcquisitionLot objects in creation      *)
(* order; the ledger maps (wallet, mint) to the list of its lots, held as  *)
(* indices into lots, so that a lot mutated through one reference is       *)
(* mutated for all.                                                        *)
(***************************************************************************)
LedgerKeys == Wallets \X Mints

\* key=lambda l: (l.ts, l.lot_id)
LedgerKeyLess(a, b) ==
    \/ a.ts < b.ts
    \/ a.ts = b.ts /\ LotIdLess(a.lot_id, b.lot_id)

\* FIFO taking the newest lot first
BeforeNewestFirst(m, a, b) ==
    CASE m = "FIFO" -> \/ b.ts < a.ts
                       \/ b.ts = a.ts /\ LotIdLess(b.lot_id, a.lot_id)
      [] m = "LIFO" -> \/ b.ts < a.ts
                       \/ b.ts = a.ts /\ LotIdLess(b.lot_id, a.lot_id)
      [] m = "HIFO" -> \/ a.unit_cost_aud > b.unit_cost_aud
                       \/ a.unit_cost_aud = b.unit_cost_aud /\ a.ts > b.ts
      [] OTHER -> FALSE

\* HIFO taking the cheapest lot first
BeforeLowestCost(m, a, b) ==
    CASE m = "FIFO" -> \/ a.ts < b.ts
                       \/ a.ts = b.ts /\ LotIdLess(a.lot_id, b.lot_id)
      [] m = "LIFO" -> \/ b.ts < a.ts
                       \/ b.ts = a.ts /\ LotIdLess(b.lot_id, a.lot_id)
      [] m = "HIFO" -> \/ a.unit_cost_aud < b.unit_cost_aud
                       \/ a.unit_cost_aud = b.unit_cost_aud /\ a.ts > b.ts
      [] OTHER -> FALSE

\* the strict order each method sorts by
Before(m, a, b) ==
    CASE m = "FIFO" -> LedgerKeyLess(a, b)
      [] m = "LIFO" -> LedgerKeyLess(b, a)
      [] m = "HIFO" -> \/ a.unit_cost_aud > b.unit_cost_aud
                       \/ a.unit_cost_aud = b.unit_cost_aud /\ a.ts > b.ts
      [] OTHER -> FALSE

\* sorted() is stable: x, the last element sorted, goes after its equals
RECURSIVE InsertSorted(_, _, _, _)
InsertSorted(m, x, s, store) ==
    IF s = <<>> THEN <<x>>
    ELSE IF Before(m, store[x], store[Head(s)]) THEN <<x>> \o s
    ELSE <<Head(s)>> \o InsertSorted(m, x, Tail(s), store)

RECURSIVE SortedBy(_, _, _)
SortedBy(m, s, store) ==
    IF s = <<>> THEN <<>>
    ELSE InsertSorted(m, s[Len(s)], SortedBy(m, SubSeq(s, 1, Len(s) - 1), store), store)

\* LotLedger.add_lot on the pair [lots, ledger]
add_lot(st, lot) ==
    LET idx == Len(st.lots) + 1
        key == <<lot.wallet, lot.token_mint>>
        store == Append(st.lots, lot)
    IN  [st EXCEPT !.lots = store,
                   !.ledger = [st.ledger EXCEPT ![key] = SortedBy("FIFO", Append(@, idx), store)]]

lots_for(st, wallet, token_mint) == st.ledger[<<wallet, token_mint>>]

\* LotLedger.update_remaining
update_remaining(lot, qty_used) ==
    LET r == Quantize9(lot.remaining_qty - qty_used, lot.token_mint)
    IN  [lot EXCEPT !.remaining_qty = IF r < 0 THEN 0 ELSE r]

(***************************************************************************)
(* The allocation strategy, methods.allocate.                              *)
(***************************************************************************)
NoIssue == [required_qty |-> 0, available_qty |-> 0, shortfall_qty |-> 0,
            wallet |-> "none", mint |-> "none", ts |-> 0, event_id |-> 0,
            message |-> "none"]

\* an issue whose shortfall is the whole required quantity
IssueOfRequiredQty(ctx, required_qty, available_qty, message) ==
    [required_qty |-> required_qty, available_qty |-> available_qty,
     shortfall_qty |-> required_qty,
     wallet |-> ctx.wallet, mint |-> ctx.mint, ts |-> ctx.ts,
     event_id |-> ctx.event_id, message |-> message]

\* _build_missing_lot_issue; ctx is the event's _issue_context
_build_missing_lot_issue(ctx, required_qty, available_qty, message) ==
    LET shortfall == required_qty - available_qty
    IN  [required_qty |-> required_qty, available_qty |-> available_qty,
         shortfall_qty |-> IF shortfall > 0 THEN shortfall ELSE 0,
         wallet |-> ctx.wallet, mint |-> ctx.mint, ts |-> ctx.ts,
         event_id |-> ctx.event_id, message |-> message]

Raise(issue, message) ==
    [ok |-> FALSE, allocation |-> <<>>, issue |-> issue, message |-> message]

Return(allocation) ==
    [ok |-> TRUE, allocation |-> allocation, issue |-> NoIssue, message |-> "none"]

RECURSIVE RemainingOf(_, _)
RemainingOf(s, store) ==
    IF s = <<>> THEN 0
    ELSE store[Head(s)].remaining_qty + RemainingOf(Tail(s), store)

\* the greedy walk of FIFO, LIFO and HIFO: <<allocation, remaining>>
RECURSIVE Greedy(_, _, _)
Greedy(ordered, remaining, store) ==
    IF ordered = <<>> \/ remaining <= 0 THEN <<>>
    ELSE LET lot == Head(ordered)
             take == Min(store[lot].remaining_qty, remaining)
         IN  IF take > 0
             THEN <<<<lot, take>>>> \o Greedy(Tail(ordered), remaining - take, store)
             ELSE Greedy(Tail(ordered), remaining, store)

RECURSIVE Taken(_)
Taken(allocation) ==
    IF allocation = <<>> THEN 0 ELSE Head(allocation)[2] + Taken(Tail(allocation))

\* lot_lookup = {lot.lot_id: lot for lot in available}: the last lot wins
RECURSIVE Lookup(_, _, _)
Lookup(available, lot_id, store) ==
    IF available = <<>> THEN 0
    ELSE LET i == available[Len(available)]
         IN  IF store[i].lot_id = lot_id THEN i
             ELSE Lookup(SubSeq(available, 1, Len(available) - 1), lot_id, store)

\* a Specific-ID loop that returns the plan without comparing its total to qty
RECURSIVE SpecificPlanUnchecked(_, _, _, _, _, _)
SpecificPlanUnchecked(selections, available, store, ctx, qty, plan) ==
    IF selections = <<>> THEN Return(plan)
    ELSE LET lot == Lookup(available, Head(selections)[1], store)
             lot_qty == Head(selections)[2]
         IN  IF lot = 0 THEN Raise(NoIssue, "Lot not available")
             ELSE IF lot_qty > store[lot].remaining_qty
             THEN Raise(_build_missing_lot_issue(ctx, qty, RemainingOf(available, store),
                                                 "Lot insufficient quantity"),
                        "Lot insufficient quantity")
             ELSE SpecificPlanUnchecked(Tail(selections), available, store, ctx, qty,
                                        Append(plan, <<lot, lot_qty>>))

\* the loop over the selections of a Specific-ID plan
RECURSIVE SpecificPlan(_, _, _, _, _, _)
SpecificPlan(selections, available, store, ctx, qty, plan) ==
    IF selections = <<>>
    THEN IF Taken(plan) # qty
         THEN Raise(NoIssue, "Specific allocation quantity mismatch")
         ELSE Return(plan)
    ELSE LET lot == Lookup(available, Head(selections)[1], store)
             lot_qty == Head(selections)[2]
         IN  IF lot = 0 THEN Raise(NoIssue, "Lot not available")
             ELSE IF lot_qty > store[lot].remaining_qty
             THEN Raise(_build_missing_lot_issue(ctx, qty, RemainingOf(available, store),
                                                 "Lot insufficient quantity"),
                        "Lot insufficient quantity")
             ELSE SpecificPlan(Tail(selections), available, store, ctx, qty,
                               Append(plan, <<lot, lot_qty>>))

allocate(lot_list, qty, m, selections, ctx, store) ==
    LET available == SelectSeq(lot_list, LAMBDA i : store[i].remaining_qty > 0)
        available_qty == RemainingOf(available, store)
    IN  IF qty <= 0 THEN Return(<<>>)
        ELSE IF available = <<>>
        THEN Raise(_build_missing_lot_issue(ctx, qty, available_qty,
                                            "No acquisition lots available"),
                   "No acquisition lots available")
        ELSE IF m = "SPECIFIC"
        THEN IF selections = <<>>
             THEN Raise(NoIssue, "No specific lots defined")
             ELSE SpecificPlan(selections, available, store, ctx, qty, <<>>)
        ELSE LET allocation == Greedy(SortedBy(m, available, store), qty, store)
             IN  IF qty - Taken(allocation) > 0
                 THEN Raise(_build_missing_lot_issue(ctx, qty, available_qty,
                                "Insufficient lot quantity to satisfy disposal"),
                            "Insufficient lot quantity to satisfy disposal")
                 ELSE Return(allocation)

(***************************************************************************)
(* AccountingEngine.  st is the engine's state during process(): the       *)
(* ledger and the accumulators of the call.                                *)
(***************************************************************************)
long_term_days == 365

\* a holding period rounded to the nearest day
holding_period_rounded(acquired, disposed) == (disposed - acquired + 12) \div 24

\* utils.holding_period_days: (disposed - acquired).days, the whole days of a
\* timedelta, rounded down
holding_period_days(acquired, disposed) == (disposed - acquired) \div 24

_issue_context(event, token) ==
    [wallet |-> event.wallet, mint |-> token.mint, ts |-> event.ts, event_id |-> event.id]

WarningRecord(event, code) ==
    [ts |-> event.ts, wallet |-> event.wallet, signature |-> event.id, code |-> code]

Value(v) == [error |-> "none", value |-> v]
AttributeError == [error |-> "AttributeError", value |-> 0]

\* AccountingEngine._fee_to_aud: a missing SOL price reaches
\* self._warn_missing_price, which AccountingEngine does not define
_fee_to_aud(event) ==
    IF event.fee_sol = 0 THEN Value(0)
    ELSE IF event.sol_price = None THEN AttributeError
    ELSE Value(RoundHalfEven(event.fee_sol * event.sol_price, 10))

\* quantize_aud(price * token.amount), the price in cents for one token
PriceTimesAmount(price, token) ==
    IF price = 0 THEN 0
    ELSE RoundHalfEven(price * token.amount, Pow10(Decimals(token.mint)))

\* AccountingEngine._resolve_price
_resolve_price(event) ==
    IF event.token_price = None THEN AttributeError ELSE Value(event.token_price)

\* AccountingEngine._resolve_proceeds
_resolve_proceeds(event, base, quote) ==
    IF event.proceeds_aud # None THEN Value(event.proceeds_aud)
    ELSE LET price == _resolve_price(event)
         IN  IF price.error # "none" THEN price
             ELSE IF quote # NoToken THEN Value(PriceTimesAmount(price.value, quote))
             ELSE Value(PriceTimesAmount(price.value, base))

\* quantize_aud(lot.unit_cost_aud * qty_used)
LotCost(lot, qty_used) ==
    IF lot.unit_cost_aud = 0 THEN 0
    ELSE RoundHalfEven(lot.unit_cost_aud * qty_used, Pow10(Decimals(lot.token_mint)))

\* quantize_aud(total_cost / qty)
UnitCost(total_cost, qty, mint) ==
    IF total_cost = 0 THEN 0
    ELSE RoundHalfEven(total_cost * Pow10(Decimals(mint)), qty)

\* a fee share taken in proportion to the quantity the lot was acquired with
LotFeeShareOfAcquired(lot, qty_used) ==
    IF lot.qty_acquired # 0 THEN FMul(lot.fees_aud, Frac(qty_used, lot.qty_acquired))
    ELSE FInt(0)

\* the part of a lot's fees_aud that goes with qty_used of it
LotFeeShare(lot, qty_used) ==
    LET remaining_qty == IF lot.remaining_qty # 0 THEN lot.remaining_qty ELSE lot.qty_acquired
    IN  IF remaining_qty # 0 THEN FMul(lot.fees_aud, Frac(qty_used, remaining_qty))
        ELSE FInt(0)

\* lot.fees_aud = lot.fees_aud - share; if lot.fees_aud < 0: lot.fees_aud = 0
TakeFees(lot, share) ==
    LET left == FSub(lot.fees_aud, share)
    IN  [lot EXCEPT !.fees_aud = IF FLess(left, FInt(0)) THEN FInt(0) ELSE left]

\* the loop of AccountingEngine._handle_disposal over the allocation
RECURSIVE DisposalLoop(_, _, _, _, _, _, _)
DisposalLoop(allocation, store, records, event, base, proceeds_aud, fee_aud) ==
    IF allocation = <<>> THEN [lots |-> store, records |-> records]
    ELSE LET i == Head(allocation)[1]
             qty_used == Head(allocation)[2]
             lot == store[i]
             lot_fee_share == LotFeeShare(lot, qty_used)
             lot_cost == LotCost(lot, qty_used)
             fee_share == RoundHalfEven(fee_aud * qty_used, base.amount)
             proceeds_share == RoundHalfEven(proceeds_aud * qty_used, base.amount)
             cost_base == FAdd(FInt(lot_cost), lot_fee_share)
             gain_loss == quantize_aud(FSub(FInt(proceeds_share - fee_share), cost_base))
             held_days == holding_period_days(lot.ts, event.ts)
             record == [event_id |-> event.id, wallet |-> event.wallet, ts |-> event.ts,
                        token_mint |-> base.mint, qty_disposed |-> qty_used,
                        proceeds_aud |-> proceeds_share, cost_base_aud |-> cost_base,
                        fees_aud |-> fee_share, gain_loss_aud |-> gain_loss,
                        long_term |-> (held_days >= long_term_days),
                        held_days |-> held_days, method |-> method,
                        lot |-> i, lot_id |-> lot.lot_id, notes |-> <<"lot_id">>]
         IN  DisposalLoop(Tail(allocation),
                          [store EXCEPT ![i] = update_remaining(TakeFees(lot, lot_fee_share), qty_used)],
                          Append(records, record), event, base, proceeds_aud, fee_aud)

\* self.specific.lots_for(event_id)
Selections(st, event) ==
    IF event.id \in DOMAIN st.specific THEN st.specific[event.id] ELSE <<>>

\* what _handle_disposal returns with the records of its loop
Disposed(st, done) ==
    [ok |-> TRUE, issue |-> NoIssue, st |-> [st EXCEPT !.lots = done.lots],
     records |-> done.records]

\* _handle_disposal once allocate has answered
DisposalAllocated(st, event, base, proceeds_aud, fee_aud, result) ==
    IF ~result.ok THEN [ok |-> FALSE, issue |-> result.issue, st |-> st, records |-> <<>>]
    ELSE IF result.allocation = <<>>
    THEN [ok |-> FALSE, issue |-> NoIssue, st |-> st, records |-> <<>>]
    ELSE Disposed(st, DisposalLoop(result.allocation, st.lots, <<>>, event, base,
                                   proceeds_aud, fee_aud))

\* AccountingEngine._handle_disposal
_handle_disposal(st, event, base, proceeds_aud, fee_aud) ==
    DisposalAllocated(st, event, base, proceeds_aud, fee_aud,
                      allocate(lots_for(st, event.wallet, base.mint), base.amount, method,
                               Selections(st, event), _issue_context(event, base), st.lots))

\* AccountingEngine._handle_acquisition
_handle_acquisition(st, event, quote, proceeds_hint, fee_aud) ==
    LET price == _resolve_price(event)
        total_cost == IF event.cost_aud # None THEN Value(event.cost_aud)
                      ELSE IF proceeds_hint # None THEN Value(proceeds_hint)
                      ELSE IF price.error # "none" THEN price
                      ELSE Value(PriceTimesAmount(price.value, quote))
        lot == [lot_id |-> AcquisitionLotId(event.id, quote.mint), wallet |-> event.wallet,
                ts |-> event.ts, token_mint |-> quote.mint, qty_acquired |-> quote.amount,
                unit_cost_aud |-> UnitCost(total_cost.value, quote.amount, quote.mint),
                fees_aud |-> IF event.base_token = NoToken THEN FInt(fee_aud) ELSE FInt(0),
                remaining_qty |-> quote.amount, source_event |-> event.id,
                source_type |-> event.kind]
    IN  IF total_cost.error # "none" THEN [error |-> total_cost.error, st |-> st]
        ELSE [error |-> "none",
              st |-> [add_lot(st, lot) EXCEPT !.acquisitions = Append(@, Len(st.lots) + 1)]]

\* AccountingEngine._add_synthetic_lot, and acquisitions.append(synthetic)
_add_synthetic_lot(st, issue, event) ==
    LET lot == [lot_id |-> SyntheticLotId(event.id, issue.mint), wallet |-> issue.wallet,
                ts |-> issue.ts, token_mint |-> issue.mint, qty_acquired |-> issue.shortfall_qty,
                unit_cost_aud |-> 0, fees_aud |-> FInt(0), remaining_qty |-> issue.shortfall_qty,
                source_event |-> issue.event_id, source_type |-> "synthetic_missing_basis"]
    IN  [add_lot(st, lot) EXCEPT !.acquisitions = Append(@, Len(st.lots) + 1)]

\* allocate_fee_over_consumed_parts: the shares of all parts but the last
RECURSIVE ProportionalShares(_, _, _)
ProportionalShares(parts, total_qty, fee_aud) ==
    IF parts = <<>> THEN <<>>
    ELSE <<FMul(FInt(fee_aud), Frac(Head(parts)[2], total_qty))>>
         \o ProportionalShares(Tail(parts), total_qty, fee_aud)

\* every part, the last too, gets its proportional share rounded to the cent
RoundedShares(consumed_parts, fee_aud) ==
    LET total_qty == Taken(consumed_parts)
    IN  [k \in 1..Len(consumed_parts) |->
            IF fee_aud = 0 \/ total_qty = 0 THEN FInt(0)
            ELSE FInt(RoundHalfEven(fee_aud * consumed_parts[k][2], total_qty))]

allocate_fee_over_consumed_parts(consumed_parts, fee_aud) ==
    LET total_qty == Taken(consumed_parts)
        n == Len(consumed_parts)
        first == ProportionalShares(SubSeq(consumed_parts, 1, n - 1), total_qty, fee_aud)
    IN  IF consumed_parts = <<>> THEN <<>>
        ELSE IF fee_aud = 0 \/ total_qty = 0 THEN [k \in 1..n |-> FInt(0)]
        ELSE Append(first, FSub(FInt(fee_aud), FSum(first)))

\* a moved lot dated by the transfer instead of the acquisition
MovedLotAtTransferTs(lot, qty_used, out_event, dst_wallet, fees) ==
    [lot_id |-> MoveLotId(lot.lot_id, out_event.id), wallet |-> dst_wallet,
     ts |-> out_event.ts, token_mint |-> lot.token_mint,
     qty_acquired |-> qty_used, unit_cost_aud |-> lot.unit_cost_aud,
     fees_aud |-> fees, remaining_qty |-> qty_used, source_event |-> out_event.id,
     source_type |-> "lot_move"]

\* the AcquisitionLot that takes qty_used of lot to dst_wallet
MovedLot(lot, qty_used, out_event, dst_wallet, fees) ==
    [lot_id |-> MoveLotId(lot.lot_id, out_event.id), wallet |-> dst_wallet,
     ts |-> lot.ts, token_mint |-> lot.token_mint,
     qty_acquired |-> qty_used, unit_cost_aud |-> lot.unit_cost_aud,
     fees_aud |-> fees, remaining_qty |-> qty_used, source_event |-> out_event.id,
     source_type |-> "lot_move"]

\* the loop of _handle_self_transfer over the allocation: every consumed part
\* of a source lot becomes a new lot of dst_wallet
RECURSIVE MoveLoop(_, _, _, _, _, _)
MoveLoop(allocation, move_fee_allocations, st, out_event, dst_wallet, created) ==
    IF allocation = <<>> THEN [st |-> st, created |-> created]
    ELSE LET i == Head(allocation)[1]
             qty_used == Head(allocation)[2]
             lot == st.lots[i]
             moved_fees == LotFeeShare(lot, qty_used)
             new_lot == MovedLot(lot, qty_used, out_event, dst_wallet,
                                 FAdd(moved_fees, Head(move_fee_allocations)))
             st1 == [st EXCEPT !.lots[i] = update_remaining(TakeFees(lot, moved_fees), qty_used)]
         IN  MoveLoop(Tail(allocation), Tail(move_fee_allocations), add_lot(st1, new_lot),
                      out_event, dst_wallet, Append(created, Len(st.lots) + 1))

\* the LotMoveRecord of a self-transfer
LotMoveRecord(st, out_event, fee_aud, allocation, moved) ==
    [tx_signature |-> out_event.id, ts |-> out_event.ts,
     src_wallet |-> out_event.wallet, dst_wallet |-> out_event.in_wallet,
     mint |-> out_event.base_token.mint, amount |-> out_event.base_token.amount,
     fee_aud |-> fee_aud,
     lots_consumed |-> [k \in 1..Len(allocation) |->
         [lot_id |-> st.lots[allocation[k][1]].lot_id,
          lot |-> allocation[k][1], qty |-> allocation[k][2]]],
     lots_created |-> [k \in 1..Len(allocation) |->
         [lot_id |-> moved.st.lots[moved.created[k]].lot_id,
          lot |-> moved.created[k], qty |-> allocation[k][2]]]]

\* lot_moves.append(move_record) and acquisitions.extend(moved_lots) of process()
SelfTransferMoved(st, out_event, fee_aud, allocation, moved) ==
    [error |-> "none", issue |-> NoIssue,
     st |-> [moved.st EXCEPT
                !.lot_moves = Append(@, LotMoveRecord(st, out_event, fee_aud, allocation, moved)),
                !.acquisitions = @ \o moved.created]]

\* _handle_self_transfer once _fee_to_aud and then allocate have answered
SelfTransferAllocated(st, out_event, fee_aud, result) ==
    IF fee_aud.error # "none" THEN [error |-> fee_aud.error, issue |-> NoIssue, st |-> st]
    ELSE IF ~result.ok THEN [error |-> "LotSelectionError", issue |-> result.issue, st |-> st]
    ELSE SelfTransferMoved(st, out_event, fee_aud.value, result.allocation,
             MoveLoop(result.allocation,
                      allocate_fee_over_consumed_parts(result.allocation, fee_aud.value),
                      st, out_event, out_event.in_wallet, <<>>))

\* a self-transfer that allocates as a disposal does, by the engine's method
\* and the Specific-ID map
SelfTransferByMethod(st, out_event) ==
    SelfTransferAllocated(st, out_event, _fee_to_aud(out_event),
        allocate(lots_for(st, out_event.wallet, out_event.base_token.mint),
                 out_event.base_token.amount, method, Selections(st, out_event),
                 _issue_context(out_event, out_event.base_token), st.lots))

\* AccountingEngine._handle_self_transfer, with lot_moves.append(move_record)
\* and acquisitions.extend(moved_lots) of process()
_handle_self_transfer(st, out_event) ==
    SelfTransferAllocated(st, out_event, _fee_to_aud(out_event),
        allocate(lots_for(st, out_event.wallet, out_event.base_token.mint),
                 out_event.base_token.amount, "FIFO", <<>>,
                 _issue_context(out_event, out_event.base_token), st.lots))

\* AccountingEngine._handle_out_of_scope_transfer: with lots to move it reaches
\* self._external_wallet_id, which AccountingEngine does not define
_handle_out_of_scope_transfer(st, event) ==
    LET token == event.base_token
        result == allocate(lots_for(st, event.wallet, token.mint), token.amount, "FIFO",
                           <<>>, _issue_context(event, token), st.lots)
    IN  IF ~result.ok
        THEN [st EXCEPT !.warnings = Append(@, WarningRecord(event, "external_transfer_out_no_lots"))]
        ELSE [st EXCEPT !.status = "AttributeError"]

AccountingResult(st) ==
    [attached |-> TRUE, acquisitions |-> st.acquisitions, disposals |-> st.disposals,
     lot_moves |-> st.lot_moves, warnings |-> st.warnings]

NoPartialResult ==
    [attached |-> FALSE, acquisitions |-> <<>>, disposals |-> <<>>,
     lot_moves |-> <<>>, warnings |-> <<>>]

(***************************************************************************)
(* AccountingEngine.process(): what the loop body does with one event.     *)
(***************************************************************************)
\* a strict raise that passes the LotSelectionError of allocate on as it is
RaiseWithoutPartial(st) == [st EXCEPT !.status = "LotSelectionError"]

\* raise LotSelectionError(..., partial_result=AccountingResult(...)) from exc
RaiseWithPartial(st) ==
    [st EXCEPT !.status = "LotSelectionError", !.partial_result = AccountingResult(st)]

\* a LotSelectionError that leaves process() as allocate raised it
RaiseBare(st) == [st EXCEPT !.status = "LotSelectionError"]

\* if issue and missing_lot_issues is not None: missing_lot_issues.append(issue)
NoteIssue(st, issue) ==
    IF issue # NoIssue THEN [st EXCEPT !.missing_lot_issues = Append(@, issue)] ELSE st

\* the synthetic lot and its warning, before the operation is tried again
Recover(st, issue, event) ==
    [_add_synthetic_lot(st, issue, event)
        EXCEPT !.warnings = Append(@, WarningRecord(event, "missing_lots_synthetic"))]

\* record.notes = _append_note(record.notes, "unreliable_missing_lots")
_append_note(record, note) ==
    IF \E k \in 1..Len(record.notes) : record.notes[k] = note THEN record
    ELSE [record EXCEPT !.notes = Append(@, note)]

\* the second _handle_self_transfer, after the synthetic lot
LotMoveRetried(st2, second) ==
    IF second.error = "none" THEN second.st ELSE [st2 EXCEPT !.status = second.error]

\* except methods.LotSelectionError of the lot move branch; st1 has the issue noted
LotMoveFailed(st1, event, issue) ==
    IF strict_lots THEN RaiseWithPartial(st1)
    ELSE IF issue = NoIssue THEN RaiseBare(st1)
    ELSE LotMoveRetried(Recover(st1, issue, event),
                        _handle_self_transfer(Recover(st1, issue, event), event))

\* a loop body that tests the counterparty of a transfer_out before match_by_out
OutOfScopeTriedFirst(st, event, first) ==
    IF event.counterparty \notin Wallets THEN _handle_out_of_scope_transfer(st, event)
    ELSE IF first.error = "none" THEN first.st
    ELSE IF first.error = "AttributeError" THEN [st EXCEPT !.status = "AttributeError"]
    ELSE LotMoveFailed(NoteIssue(st, first.issue), event, first.issue)

\* the first _handle_self_transfer of the lot move branch
LotMoveTried(st, event, first) ==
    IF first.error = "none" THEN first.st
    ELSE IF first.error = "AttributeError" THEN [st EXCEPT !.status = "AttributeError"]
    ELSE LotMoveFailed(NoteIssue(st, first.issue), event, first.issue)

\* the branch of an event that is the out side of a transfer match
ProcessLotMove(st, event) == LotMoveTried(st, event, _handle_self_transfer(st, event))

\* the second _handle_disposal, after the synthetic lot: its records are noted
DisposalRetried(st2, second) ==
    IF second.ok
    THEN [second.st EXCEPT !.disposals = @ \o
              [k \in 1..Len(second.records) |->
                   _append_note(second.records[k], "unreliable_missing_lots")]]
    ELSE RaiseBare(st2)

\* except methods.LotSelectionError of the disposal; st1 has the issue noted
DisposalFailed(st1, event, proceeds_aud, fee_aud, issue) ==
    IF strict_lots THEN RaiseWithPartial(st1)
    ELSE IF issue = NoIssue THEN RaiseBare(st1)
    ELSE DisposalRetried(Recover(st1, issue, event),
                         _handle_disposal(Recover(st1, issue, event), event,
                                          event.base_token, proceeds_aud, fee_aud))

\* the first _handle_disposal of the event
DisposalTried(st, event, proceeds_aud, fee_aud, first) ==
    IF first.ok THEN [first.st EXCEPT !.disposals = @ \o first.records]
    ELSE DisposalFailed(NoteIssue(st, first.issue), event, proceeds_aud, fee_aud, first.issue)

\* the disposal half of the general handling of an event
ProcessDisposal(st, event, proceeds_aud, fee_aud) ==
    DisposalTried(st, event, proceeds_aud, fee_aud,
                  _handle_disposal(st, event, event.base_token, proceeds_aud, fee_aud))

\* acquisitions.append(self._handle_acquisition(...))
Acquired(st1, acquired) ==
    IF acquired.error # "none" THEN [st1 EXCEPT !.status = acquired.error] ELSE acquired.st

\* the acquisition half of the general handling of an event
ProcessAcquisition(st1, event, proceeds_aud, fee_aud) ==
    IF st1.status # "running" THEN st1
    ELSE IF event.quote_token # NoToken /\ event.quote_token.amount > 0
    THEN Acquired(st1, _handle_acquisition(st1, event, event.quote_token, proceeds_aud, fee_aud))
    ELSE st1

\* the general handling once _resolve_proceeds has answered
ProceedsResolved(st, event, fee_aud, proceeds_aud) ==
    IF proceeds_aud.error # "none" THEN [st EXCEPT !.status = proceeds_aud.error]
    ELSE ProcessAcquisition(ProcessDisposal(st, event, proceeds_aud.value, fee_aud),
                            event, proceeds_aud.value, fee_aud)

\* the general handling once _fee_to_aud has answered
FeeResolved(st, event, fee_aud) ==
    IF fee_aud.error # "none" THEN [st EXCEPT !.status = fee_aud.error]
    ELSE IF event.base_token # NoToken /\ event.base_token.amount > 0
    THEN ProceedsResolved(st, event, fee_aud.value,
                          _resolve_proceeds(event, event.base_token, event.quote_token))
    ELSE ProcessAcquisition(st, event, None, fee_aud.value)

\* the general disposal and acquisition handling of an event
ProcessGeneral(st, event) == FeeResolved(st, event, _fee_to_aud(event))

\* a transfer_in from outside the tracked wallets: with external_lot_tracking
\* it reaches self._handle_external_return, which AccountingEngine does not
\* define; without, it is warned about and handled as an acquisition
ProcessExternalTransferIn(st, event) ==
    IF external_lot_tracking THEN [st EXCEPT !.status = "AttributeError"]
    ELSE ProcessGeneral(
            [st EXCEPT !.warnings = Append(@, WarningRecord(event, "external_transfer_in"))],
            event)

(***************************************************************************)
(* The events process() is given.  They come in (ts, id) order; event k    *)
(* has id k and a ts in whole hours: the first at hour 0, the second 364   *)
(* days and 12 hours later, the third 365 days after the first, and any    *)
(* further one a day after its predecessor.  The answers of the price      *)
(* provider for an event                                                   *)
(* (sol_price in AUD, token_price in cents, None when it has no price) and *)
(* the hints of event.raw are part of the event.  TOKENX has 0 decimals    *)
(* and is priced; FINE has 10 decimals, so that its quantities are finer   *)
(* than the 9 places the ledger keeps, and costs nothing.                  *)
(***************************************************************************)
Token(mint, amount) == [mint |-> mint, amount |-> amount]

\* <<fee_sol, sol_price>>: no fee, a fee of one cent, a fee without a price
NoFee == <<0, None>>
OneCent == <<1, 10>>
FeeUnpriced == <<1, None>>

\* <<hint of event.raw, token_price>>: a hint, a price, neither
Hint(v) == <<v, None>>
Priced(v) == <<None, v>>
Unpriced == <<None, None>>

Event(kind, wallet, counterparty, base, quote, fee, proceeds, cost, role, in_wallet) ==
    [id |-> Len(events) + 1,
     ts |-> IF Len(events) = 0 THEN 0 ELSE IF Len(events) = 1 THEN 8748
            ELSE 8760 + 24 * (Len(events) - 2),
     kind |-> kind, wallet |-> wallet,
     counterparty |-> counterparty, base_token |-> base, quote_token |-> quote,
     fee_sol |-> fee[1], sol_price |-> fee[2],
     proceeds_aud |-> proceeds[1], cost_aud |-> cost[1],
     token_price |-> IF base # NoToken THEN proceeds[2] ELSE cost[2],
     role |-> role, in_wallet |-> in_wallet, fee_aud |-> None]

\* <<amount, fee, cost>> of the buys, all of wallet W1
BuyInputs ==
    {<<1, NoFee, Hint(10)>>, <<2, OneCent, Hint(10)>>,
     <<1, NoFee, Unpriced>>, <<1, FeeUnpriced, Hint(10)>>}

Buys ==
    {Event("buy", "W1", NoCounterparty, NoToken, Token("TOKENX", x[1]), x[2], Unpriced, x[3],
           "plain", "none") : x \in BuyInputs}
    \cup {Event("buy", "W1", NoCounterparty, NoToken, Token("FINE", 16), NoFee, Unpriced,
                Hint(0), "plain", "none")}

\* <<wallet, amount, fee, proceeds>> of the sells
SellInputs ==
    {<<"W1", 1, NoFee, Priced(6)>>, <<"W1", 2, OneCent, Priced(6)>>,
     <<"W1", 1, NoFee, Unpriced>>,
     <<"W2", 1, NoFee, Priced(6)>>, <<"W2", 2, OneCent, Priced(6)>>}

Sells ==
    {Event("sell", x[1], NoCounterparty, Token("TOKENX", x[2]), NoToken, x[3], x[4], Unpriced,
           "plain", "none") : x \in SellInputs}
    \cup {Event("sell", "W1", NoCounterparty, Token("FINE", a), NoToken, NoFee, Hint(11),
                Unpriced, "plain", "none") : a \in Amounts("FINE")}

\* <<wallet, in_wallet, amount, fee>> of the out sides of the transfer matches
MatchInputs ==
    {<<"W1", "W2", 1, NoFee>>, <<"W1", "W2", 2, OneCent>>, <<"W1", "W2", 1, FeeUnpriced>>,
     <<"W2", "W1", 1, NoFee>>}

\* the out side of a TransferMatch whose in side is an event of in_wallet
MatchedOuts ==
    {Event("transfer_out", x[1], x[2], Token("TOKENX", x[3]), NoToken, x[4], Unpriced,
           Unpriced, "matched_out", x[2]) : x \in MatchInputs}
    \cup {Event("transfer_out", "W1", "W2", Token("FINE", 1), NoToken, NoFee, Unpriced,
                Unpriced, "matched_out", "W2")}
    \cup {Event("transfer_out", "W1", External, Token("TOKENX", 1), NoToken, NoFee, Unpriced,
                Unpriced, "matched_out", "W2")}

\* the in side of a TransferMatch: process() reads its id alone
MatchedIns ==
    {Event("transfer_in", "W2", "W1", NoToken, Token("TOKENX", 1), NoFee, Unpriced, Unpriced,
           "matched_in", "none")}

\* a transfer_out that no match covers, to an address outside the wallets
ExternalTransferOuts ==
    {Event("transfer_out", "W1", x[1], Token("TOKENX", x[2]), NoToken, x[3], Priced(6),
           Unpriced, "plain", "none") :
        x \in {<<External, 1, NoFee>>, <<NoCounterparty, 2, OneCent>>}}

\* a transfer_in that no match covers, from an address outside the wallets
ExternalTransferIns ==
    {Event("transfer_in", "W1", x[1], NoToken, Token("TOKENX", x[2]), NoFee, Unpriced,
           x[3], "plain", "none") :
        x \in {<<External, 1, Hint(6)>>, <<NoCounterparty, 2, Hint(10)>>}}

\* a transfer between the tracked wallets that no match covers
UnmatchedTransfers ==
    {Event("transfer_out", "W1", "W2", Token("TOKENX", 1), NoToken, NoFee, Priced(6),
           Unpriced, "plain", "none")}

\* a swap of wallet W1: TOKENX is given for FINE, which is worth nothing, for a
\* fee of one cent
Swaps ==
    {Event("swap", "W1", NoCounterparty, Token("TOKENX", a), Token("FINE", 16), OneCent,
           Hint(0), Unpriced, "plain", "none") : a \in Amounts("TOKENX")}

\* the engine and the accumulators of the call, as the handlers take them
Engine ==
    [specific |-> specific, lots |-> lots, ledger |-> ledger, acquisitions |-> acquisitions,
     disposals |-> disposals, lot_moves |-> lot_moves, warnings |-> warnings,
     missing_lot_issues |-> missing_lot_issues, status |-> status,
     partial_result |-> partial_result]

\* no wallet transfers to itself
Supplied(event) == event.wallet # event.counterparty

\* the Specific-ID plans a caller can map the event to
PlanEntries(event) ==
    LET held == lots_for(Engine, event.wallet, event.base_token.mint)
    IN  {<<id, q>> : id \in {lots[held[k]].lot_id : k \in DOMAIN held} \cup {AbsentLotId},
                     q \in {0 - 1, 0} \cup Amounts(event.base_token.mint)}

Plans(event) ==
    IF method # "SPECIFIC" \/ event.base_token = NoToken THEN {<<>>}
    ELSE UNION {[1..n -> PlanEntries(event)] : n \in 0..MaxPlanLen}

(***************************************************************************)
(* The state machine: a fresh engine, then one step of process() for each  *)
(* event, then its return.                                                 *)
(***************************************************************************)
Becomes(st) ==
    /\ specific' = st.specific
    /\ lots' = st.lots
    /\ ledger' = st.ledger
    /\ acquisitions' = st.acquisitions
    /\ disposals' = st.disposals
    /\ lot_moves' = st.lot_moves
    /\ warnings' = st.warnings
    /\ missing_lot_issues' = st.missing_lot_issues
    /\ status' = st.status
    /\ partial_result' = st.partial_result
    /\ UNCHANGED <<method, strict_lots, external_lot_tracking, transfers, returned>>

\* a new AccountingEngine(method=..., specific=...), and the start of process()
Fresh(methods) ==
    /\ method \in methods
    /\ strict_lots \in BOOLEAN
    /\ external_lot_tracking \in BOOLEAN
    /\ specific = <<>>
    /\ lots = <<>>
    /\ ledger = [k \in LedgerKeys |-> <<>>]
    /\ acquisitions = <<>>
    /\ disposals = <<>>
    /\ lot_moves = <<>>
    /\ warnings = <<>>
    /\ missing_lot_issues = <<>>
    /\ events = <<>>
    /\ status = "running"
    /\ partial_result = NoPartialResult
    /\ transfers = <<>>
    /\ returned = <<>>

Init == Fresh(Methods \ {"SPECIFIC"})

InitSpecific == Fresh({"SPECIFIC"})

Running == status = "running" /\ Len(events) < MaxEvents

\* event.raw["fee_aud"] = str(fee_aud)
Annotated(event) ==
    IF _fee_to_aud(event).error = "none"
    THEN [event EXCEPT !.fee_aud = _fee_to_aud(event).value] ELSE event

WithPlan(st, event, plan) ==
    IF plan = <<>> THEN st
    ELSE [st EXCEPT !.specific = [k \in DOMAIN st.specific \cup {event.id} |->
                                      IF k = event.id THEN plan ELSE st.specific[k]]]

\* if event.id in matched_in_ids: continue
SkipMatchedIn ==
    /\ Running
    /\ \E event \in MatchedIns :
          /\ Supplied(event)
          /\ events' = Append(events, event)
    /\ UNCHANGED <<method, strict_lots, external_lot_tracking, specific, lots, ledger,
                   acquisitions, disposals, lot_moves, warnings, missing_lot_issues,
                   status, partial_result, transfers, returned>>

\* if event.id in match_by_out; the Specific-ID map may name the newest lot of
\* the wallet for the event
LotMove ==
    /\ Running
    /\ \E event \in MatchedOuts :
          /\ Supplied(event)
          /\ events' = Append(events, event)
          /\ LET held == lots_for(Engine, event.wallet, event.base_token.mint)
                 newest == <<<<lots[held[Len(held)]].lot_id, event.base_token.amount>>>>
             IN  \E plan \in IF method = "SPECIFIC" /\ held # <<>> THEN {<<>>, newest}
                              ELSE {<<>>} :
                    Becomes(ProcessLotMove(WithPlan(Engine, event, plan), event))

\* a transfer_out with no counterparty or one outside the tracked wallets
OutOfScopeTransfer ==
    /\ Running
    /\ \E event \in ExternalTransferOuts :
          /\ Supplied(event)
          /\ events' = Append(events, event)
          /\ Becomes(_handle_out_of_scope_transfer(Engine, event))

\* a transfer_in with no counterparty or one outside the tracked wallets
ExternalTransferIn ==
    /\ Running
    /\ \E event \in ExternalTransferIns :
          /\ Supplied(event)
          /\ events' = Append(events, IF external_lot_tracking THEN event ELSE Annotated(event))
          /\ Becomes(ProcessExternalTransferIn(Engine, event))

\* every other event: its disposal, then its acquisition
General ==
    /\ Running
    /\ \E event \in Buys \cup Sells \cup Swaps \cup UnmatchedTransfers :
          /\ Supplied(event)
          /\ \E plan \in Plans(event) :
                /\ events' = Append(events, Annotated(event))
                /\ Becomes(ProcessGeneral(WithPlan(Engine, event, plan), event))

\* the events are exhausted: return AccountingResult(...)
ProcessReturns ==
    /\ status = "running"
    /\ status' = "returned"
    /\ UNCHANGED <<method, strict_lots, external_lot_tracking, specific, lots, ledger,
                   acquisitions, disposals, lot_moves, warnings, missing_lot_issues,
                   events, partial_result, transfers, returned>>

Next ==
    \/ SkipMatchedIn
    \/ LotMove
    \/ OutOfScopeTransfer
    \/ ExternalTransferIn
    \/ General
    \/ ProcessReturns

Spec == Init /\ [][Next]_vars

SpecSpecific == InitSpecific /\ [][Next]_vars

(***************************************************************************)
(* Properties of process().  An action property speaks of one step: the    *)
(* unprimed variables are the engine before the event, the primed ones the *)
(* engine after it.                                                        *)
(***************************************************************************)
LastEvent == events[Len(events)]

\* the step takes the next event; NewEvent is that event
Handled == Len(events') = Len(events) + 1
NewEvent == events'[Len(events')]

IsMatchedOut(e) == e.role = "matched_out"
IsMatchedIn(e) == e.role = "matched_in"
IsOutOfScope(e) ==
    e.role = "plain" /\ e.kind = "transfer_out" /\ e.counterparty \notin Wallets
IsExternalIn(e) ==
    e.role = "plain" /\ e.kind = "transfer_in" /\ e.counterparty \notin Wallets
IsDisposal(e) == e.role = "plain" /\ e.base_token # NoToken /\ ~IsOutOfScope(e)

\* the price provider has the prices the event asks it for
FeePriced(e) == e.fee_sol = 0 \/ e.sol_price # None
ProceedsPriced(e) == e.proceeds_aud # None \/ e.token_price # None
HasPrices(e) == FeePriced(e) /\ (IsDisposal(e) => ProceedsPriced(e))

\* what the lots of the event's wallet hold of its base token before the event
Held(e) == lots_for(Engine, e.wallet, e.base_token.mint)
OpenLots(e) == SelectSeq(Held(e), LAMBDA i : lots[i].remaining_qty > 0)
AvailableQty(e) == RemainingOf(Held(e), lots)
Covers(e) == AvailableQty(e) >= e.base_token.amount

\* the records a step appends to a list
NewRecords(old, new) == SubSeq(new, Len(old) + 1, Len(new))

\* the quantities that disposals and lot moves took from lot i
DisposedFrom(i, ds) ==
    Sum([k \in 1..Len(ds) |-> IF ds[k].lot = i THEN ds[k].qty_disposed ELSE 0])
ConsumedIn(i, parts) ==
    Sum([k \in 1..Len(parts) |-> IF parts[k].lot = i THEN parts[k].qty ELSE 0])
MovedFrom(i, ms) == Sum([k \in 1..Len(ms) |-> ConsumedIn(i, ms[k].lots_consumed)])
TakenFrom(i) == DisposedFrom(i, disposals) + MovedFrom(i, lot_moves)

DisposalsOf(id) == SelectSeq(disposals, LAMBDA d : d.event_id = id)
QtyDisposed(ds) == Sum([k \in 1..Len(ds) |-> ds[k].qty_disposed])
FeesDisposed(ds) == Sum([k \in 1..Len(ds) |-> ds[k].fees_aud])

\* C1: under a Specific-ID plan the allocator accepts, the quantities taken
\* from a lot of a whole-unit token sum to at most its qty_acquired, and
\* 0 <= remaining_qty <= qty_acquired in every reachable ledger state.
C1_Conservation ==
    \A i \in DOMAIN lots :
        lots[i].token_mint = "TOKENX" =>
            /\ TakenFrom(i) <= lots[i].qty_acquired
            /\ 0 <= lots[i].remaining_qty
            /\ lots[i].remaining_qty <= lots[i].qty_acquired

\* C2: a matched self-transfer that the source wallet's lots cover emits no
\* DisposalRecord and exactly one LotMoveRecord (its in side emits nothing),
\* and every lot it creates is a lot of the destination wallet with the ts
\* and the unit_cost_aud of the source lot it was taken from.
C2_SelfTransferMovesLots ==
    [][(Handled /\ IsMatchedIn(NewEvent) =>
            UNCHANGED <<lots, ledger, acquisitions, disposals, lot_moves, warnings, status>>)
       /\ (Handled /\ IsMatchedOut(NewEvent) /\ FeePriced(NewEvent) /\ Covers(NewEvent) =>
            LET e == NewEvent
                move == lot_moves'[Len(lot_moves')]
            IN  /\ status' = "running"
                /\ disposals' = disposals
                /\ Len(lot_moves') = Len(lot_moves) + 1
                /\ SubSeq(lot_moves', 1, Len(lot_moves)) = lot_moves
                /\ move.tx_signature = e.id
                /\ move.src_wallet = e.wallet
                /\ move.dst_wallet = e.in_wallet
                /\ move.lots_created # <<>>
                /\ Len(move.lots_created) = Len(move.lots_consumed)
                /\ {move.lots_created[k].lot : k \in DOMAIN move.lots_created}
                       = DOMAIN lots' \ DOMAIN lots
                /\ \A k \in DOMAIN move.lots_created :
                       LET new == lots'[move.lots_created[k].lot]
                           src == lots[move.lots_consumed[k].lot]
                       IN  /\ new.wallet = e.in_wallet
                           /\ new.ts = src.ts
                           /\ new.unit_cost_aud = src.unit_cost_aud
                           /\ new.qty_acquired = move.lots_consumed[k].qty
                           /\ \E j \in DOMAIN ledger'[<<e.in_wallet, new.token_mint>>] :
                                  ledger'[<<e.in_wallet, new.token_mint>>][j]
                                      = move.lots_created[k].lot)]_vars

\* a self-transfer of two units has moved two lots that were acquired on
\* earlier days than the transfer
C2_Witness ==
    /\ Len(events) = 3
    /\ IsMatchedOut(LastEvent)
    /\ status = "running"
    /\ Len(lot_moves) = 1
    /\ Len(lot_moves[1].lots_created) = 2
    /\ \A k \in 1..2 : lots[lot_moves[1].lots_created[k].lot].ts < LastEvent.ts
    /\ missing_lot_issues = <<>>

\* C3: with strict_lots, an event whose lots cover less than the quantity it
\* needs (a disposal, a matched self-transfer, a transfer_out to an untracked
\* wallet) makes process() raise LotSelectionError with partial_result
\* attached; no action is enabled after a raise, so no later event is taken.
C3_StrictShortfallRaises ==
    [][(/\ Handled
        /\ strict_lots
        /\ IsDisposal(NewEvent) \/ IsMatchedOut(NewEvent) \/ IsOutOfScope(NewEvent)
        /\ HasPrices(NewEvent)
        /\ ~Covers(NewEvent))
       => status' = "LotSelectionError" /\ partial_result'.attached]_vars

\* C4: without strict_lots and under FIFO, LIFO or HIFO, a disposal or a
\* matched self-transfer whose lots fall short does not raise: one synthetic
\* lot with unit cost 0 and quantity required - available is added to the
\* event's wallet, the operation succeeds and consumes it fully, one
\* missing_lots_synthetic warning and one MissingLotIssue are recorded, and
\* every DisposalRecord of the event is noted unreliable_missing_lots.
C4_LenientShortfallRecovers ==
    [][(/\ Handled
        /\ ~strict_lots
        /\ IsDisposal(NewEvent) \/ IsMatchedOut(NewEvent)
        /\ HasPrices(NewEvent)
        /\ ~Covers(NewEvent))
       => LET e == NewEvent
              syn == Len(lots) + 1
              shortfall == e.base_token.amount - AvailableQty(e)
              new_disposals == NewRecords(disposals, disposals')
              new_moves == NewRecords(lot_moves, lot_moves')
              new_warnings == NewRecords(warnings, warnings')
              new_issues == NewRecords(missing_lot_issues, missing_lot_issues')
              key == <<e.wallet, e.base_token.mint>>
          IN  /\ status' = "running"
              /\ Len(lots') > Len(lots)
              /\ \A i \in DOMAIN lots' \ DOMAIN lots :
                     lots'[i].source_type = "synthetic_missing_basis" <=> i = syn
              /\ lots'[syn].wallet = e.wallet
              /\ lots'[syn].token_mint = e.base_token.mint
              /\ lots'[syn].unit_cost_aud = 0
              /\ lots'[syn].qty_acquired = shortfall
              /\ lots'[syn].remaining_qty = 0
              /\ \E j \in DOMAIN ledger'[key] : ledger'[key][j] = syn
              /\ DisposedFrom(syn, new_disposals) + MovedFrom(syn, new_moves) = shortfall
              /\ Len(new_warnings) = 1
              /\ new_warnings[1].code = "missing_lots_synthetic"
              /\ new_warnings[1].signature = e.id
              /\ Len(new_issues) = 1
              /\ new_issues[1].event_id = e.id
              /\ new_issues[1].shortfall_qty = shortfall
              /\ IF IsDisposal(e)
                 THEN /\ new_moves = <<>>
                      /\ new_disposals # <<>>
                      /\ QtyDisposed(new_disposals) = e.base_token.amount
                      /\ \A k \in DOMAIN new_disposals :
                             /\ new_disposals[k].event_id = e.id
                             /\ \E n \in DOMAIN new_disposals[k].notes :
                                    new_disposals[k].notes[n] = "unreliable_missing_lots"
                 ELSE /\ new_disposals = <<>>
                      /\ Len(new_moves) = 1
                      /\ new_moves[1].tx_signature = e.id
                      /\ new_moves[1].amount = e.base_token.amount]_vars

\* a sale of two units from a wallet that held one has been recovered: the
\* lot it held and the synthetic lot are both disposed of
C4_Witness ==
    /\ Len(events) > 0
    /\ ~strict_lots
    /\ status = "running"
    /\ IsDisposal(LastEvent)
    /\ Len(DisposalsOf(LastEvent.id)) = 2
    /\ \E i \in DOMAIN lots :
           /\ lots[i].source_type = "synthetic_missing_basis"
           /\ lots[i].source_event = LastEvent.id
           /\ lots[i].qty_acquired = 1
           /\ lots[i].remaining_qty = 0

\* C5: a transfer_out to no counterparty or to an untracked one, covered by
\* the source lots, produces no DisposalRecord, exactly one LotMoveRecord and
\* one external_transfer_out warning.
C5_OutOfScopeMovesLots ==
    [][(Handled /\ IsOutOfScope(NewEvent) /\ FeePriced(NewEvent) /\ Covers(NewEvent))
       => LET new_warnings == NewRecords(warnings, warnings')
          IN  /\ status' = "running"
              /\ disposals' = disposals
              /\ Len(lot_moves') = Len(lot_moves) + 1
              /\ Len(new_warnings) = 1
              /\ new_warnings[1].code = "external_transfer_out"]_vars

\* C6: a transfer_in from an untracked counterparty whose external bucket is
\* empty (no transfer out has parked a lot in it), with external_lot_tracking
\* on or off, becomes a fresh acquisition of the whole amount with an
\* external_transfer_in warning.
C6_ExternalTransferInAcquires ==
    [][(Handled /\ IsExternalIn(NewEvent) /\ lot_moves = <<>>)
       => LET e == NewEvent
              new_warnings == NewRecords(warnings, warnings')
          IN  /\ status' = "running"
              /\ Len(lots') = Len(lots) + 1
              /\ lots'[Len(lots')].wallet = e.wallet
              /\ lots'[Len(lots')].qty_acquired = e.quote_token.amount
              /\ lots'[Len(lots')].source_event = e.id
              /\ acquisitions' = Append(acquisitions, Len(lots'))
              /\ Len(new_warnings) = 1
              /\ new_warnings[1].code = "external_transfer_in"]_vars

\* C7: the fees_aud of the DisposalRecords of a disposal event sum to the
\* event's fee_aud, to the cent.
C7_FeeProrationExact ==
    \A k \in DOMAIN events :
        DisposalsOf(k) # <<>> => FeesDisposed(DisposalsOf(k)) = events[k].fee_aud

\* a disposal event with prices, of a whole-unit token of which one lot of the
\* wallet has something left
SingleLotDisposal(e) ==
    /\ IsDisposal(e)
    /\ HasPrices(e)
    /\ e.base_token.mint = "TOKENX"
    /\ Len(OpenLots(e)) = 1

FeeRemoved(i) ==
    IF i \in DOMAIN lots THEN FSub(lots[i].fees_aud, lots'[i].fees_aud)
    ELSE FSub(FInt(0), lots'[i].fees_aud)

C10_AllocateExact ==
    [][(Handled /\ IsDisposal(NewEvent) /\ HasPrices(NewEvent))
       => LET e == NewEvent
              selections == IF e.id \in DOMAIN specific' THEN specific'[e.id] ELSE <<>>
              result == allocate(Held(e), e.base_token.amount, method, selections,
                                 _issue_context(e, e.base_token), lots)
              new == NewRecords(disposals, disposals')
          IN  /\ result.ok =>
                     /\ Taken(result.allocation) = e.base_token.amount
                     /\ \A k \in DOMAIN result.allocation :
                            /\ result.allocation[k][2] > 0
                            /\ result.allocation[k][2] <= lots[result.allocation[k][1]].remaining_qty
              /\ status' = "running" => QtyDisposed(new) = e.base_token.amount]_vars

\* the lots of the event's wallet and mint that hold something before it
OpenSet(e) == {OpenLots(e)[k] : k \in DOMAIN OpenLots(e)}

\* C11: under FIFO a covered disposal consumes the lots of its (wallet, mint)
\* in ascending (ts, lot_id) order: its records go from older to newer lots,
\* every lot older than one it takes from is drained, and with two lots
\* holding q1 (older) and q2 (newer) a disposal of q1 + k, 0 < k < q2, makes
\* exactly two records, q1 from the older lot and then k from the newer one,
\* leaving remaining_qty 0 and q2 - k.
C11_FifoOrder ==
    [][(Handled /\ method = "FIFO" /\ IsDisposal(NewEvent) /\ HasPrices(NewEvent)
            /\ Covers(NewEvent))
       => LET e == NewEvent
              new == NewRecords(disposals, disposals')
          IN  /\ status' = "running"
              /\ \A k \in DOMAIN new : new[k].lot \in OpenSet(e)
              /\ \A k \in 1..(Len(new) - 1) :
                     LedgerKeyLess(lots[new[k].lot], lots[new[k + 1].lot])
              /\ \A k \in DOMAIN new : \A j \in OpenSet(e) :
                     LedgerKeyLess(lots[j], lots[new[k].lot])
                         => /\ lots'[j].remaining_qty = 0
                            /\ \E n \in 1..(k - 1) : new[n].lot = j
              /\ \A older, newer \in OpenSet(e) :
                     (/\ OpenSet(e) = {older, newer}
                      /\ lots[older].ts < lots[newer].ts
                      /\ e.base_token.amount > lots[older].remaining_qty
                      /\ e.base_token.amount
                             < lots[older].remaining_qty + lots[newer].remaining_qty)
                     => /\ Len(new) = 2
                        /\ new[1].lot = older
                        /\ new[1].qty_disposed = lots[older].remaining_qty
                        /\ new[2].lot = newer
                        /\ new[2].qty_disposed
                               = e.base_token.amount - lots[older].remaining_qty
                        /\ lots'[older].remaining_qty = 0
                        /\ lots'[newer].remaining_qty
                               = lots[older].remaining_qty + lots[newer].remaining_qty
                                     - e.base_token.amount]_vars

\* a lot of one unit bought by event 1 and a lot of two bought by event 2 have met
\* a FIFO sale of two: one unit came from each, the newer lot keeps one
C11_Witness ==
    /\ method = "FIFO"
    /\ Len(events) = 3
    /\ status = "running"
    /\ IsDisposal(LastEvent)
    /\ missing_lot_issues = <<>>
    /\ Len(DisposalsOf(3)) = 2
    /\ LET ds == DisposalsOf(3)
       IN  /\ lots[ds[1].lot].source_event = 1 /\ lots[ds[1].lot].qty_acquired = 1
           /\ lots[ds[2].lot].source_event = 2 /\ lots[ds[2].lot].qty_acquired = 2
           /\ ds[1].qty_disposed = 1 /\ ds[2].qty_disposed = 1
           /\ lots[ds[1].lot].remaining_qty = 0
           /\ lots[ds[2].lot].remaining_qty = 1

\* C12: under HIFO a covered disposal takes from a lot only after every lot
\* of the same (wallet, mint) with a strictly higher unit_cost_aud that holds
\* something has been drained by an earlier record of the same disposal;
\* with two lots of equal quantity and different unit cost, a disposal of
\* that quantity makes a single record, from the higher-cost lot.
C12_HifoOrder ==
    [][(Handled /\ method = "HIFO" /\ IsDisposal(NewEvent) /\ HasPrices(NewEvent)
            /\ Covers(NewEvent))
       => LET e == NewEvent
              new == NewRecords(disposals, disposals')
          IN  /\ status' = "running"
              /\ new # <<>>
              /\ \A k \in DOMAIN new : \A j \in OpenSet(e) :
                     lots[j].unit_cost_aud > lots[new[k].lot].unit_cost_aud
                         => /\ lots'[j].remaining_qty = 0
                            /\ \E n \in 1..(k - 1) : new[n].lot = j
              /\ \A high, low \in OpenSet(e) :
                     (/\ OpenSet(e) = {high, low}
                      /\ lots[high].unit_cost_aud > lots[low].unit_cost_aud
                      /\ lots[high].remaining_qty = lots[low].remaining_qty
                      /\ e.base_token.amount = lots[high].remaining_qty)
                     => /\ Len(new) = 1
                        /\ new[1].lot = high
                        /\ lots'[low] = lots[low]]_vars

\* two lots of one unit, the older one cheaper, have met a HIFO sale of one
\* unit: the single record is drawn from the newer, dearer lot
C12_Witness ==
    /\ method = "HIFO"
    /\ Len(events) = 3
    /\ status = "running"
    /\ IsDisposal(LastEvent)
    /\ Len(lots) = 2
    /\ lots[1].qty_acquired = 1 /\ lots[2].qty_acquired = 1
    /\ lots[1].unit_cost_aud < lots[2].unit_cost_aud
    /\ Len(DisposalsOf(3)) = 1
    /\ DisposalsOf(3)[1].lot = 2
    /\ lots[1].remaining_qty = 1
    /\ lots[2].remaining_qty = 0

\* C13: under SPECIFIC, a disposal whose plan quantities do not sum to the
\* disposal quantity ends process() with LotSelectionError, with strict_lots
\* and without: no DisposalRecord is added and no existing lot's
\* remaining_qty changes.
C13_SpecificMismatchRaises ==
    [][(/\ Handled
        /\ method = "SPECIFIC"
        /\ IsDisposal(NewEvent)
        /\ HasPrices(NewEvent)
        /\ NewEvent.id \in DOMAIN specific'
        /\ Taken(specific'[NewEvent.id]) # NewEvent.base_token.amount)
       => /\ status' = "LotSelectionError"
          /\ disposals' = disposals
          /\ \A i \in DOMAIN lots : lots'[i].remaining_qty = lots[i].remaining_qty]_vars

\* without strict_lots, a sale of one unit with a plan of two units from a lot
\* that holds two has been rejected for its total alone
C13_Witness ==
    /\ method = "SPECIFIC"
    /\ ~strict_lots
    /\ status = "LotSelectionError"
    /\ Len(events) = 2
    /\ IsDisposal(LastEvent)
    /\ LastEvent.base_token.amount = 1
    /\ Len(lots) = 1
    /\ lots[1].remaining_qty = 2
    /\ 2 \in DOMAIN specific
    /\ specific[2] = <<<<lots[1].lot_id, 2>>>>
    /\ disposals = <<>>

\* the event goes through the general handling of process()
IsGeneral(e) == e.role = "plain" /\ ~IsOutOfScope(e) /\ ~IsExternalIn(e)

\* the provider returns None for a price the event's handling asks for: the
\* SOL price of its fee, or the price of its token when no hint gives the
\* proceeds or the cost
AsksMissingPrice(e) ==
    \/ (IsGeneral(e) \/ IsMatchedOut(e)) /\ ~FeePriced(e)
    \/ IsGeneral(e) /\ e.proceeds_aud = None /\ e.cost_aud = None /\ e.token_price = None

\* C14: an event with a missing SOL or token price does not make process()
\* raise for it: the step ends without an AttributeError and adds a
\* missing_fee_price or missing_price warning.
C14_MissingPriceWarns ==
    [][(Handled /\ AsksMissingPrice(NewEvent))
       => /\ status' # "AttributeError"
          /\ \E k \in DOMAIN NewRecords(warnings, warnings') :
                 NewRecords(warnings, warnings')[k].code
                     \in {"missing_fee_price", "missing_price"}]_vars

\* an engine that has processed events before: the accumulators of process()
\* are new, the ledger is the one the engine holds
UsedEngine(plans) ==
    [specific |-> plans, lots |-> lots, ledger |-> ledger, acquisitions |-> <<>>,
     disposals |-> <<>>, lot_moves |-> <<>>, warnings |-> <<>>,
     missing_lot_issues |-> <<>>, status |-> "running",
     partial_result |-> NoPartialResult]

\* a newly constructed AccountingEngine at the start of process()
NewEngine(plans) ==
    [specific |-> plans, lots |-> <<>>, ledger |-> [k \in LedgerKeys |-> <<>>],
     acquisitions |-> <<>>, disposals |-> <<>>, lot_moves |-> <<>>, warnings |-> <<>>,
     missing_lot_issues |-> <<>>, status |-> "running",
     partial_result |-> NoPartialResult]

\* the body of the loop of process() for one event
ProcessEvent(st, event) ==
    IF IsMatchedIn(event) THEN st
    ELSE IF IsMatchedOut(event) THEN ProcessLotMove(st, event)
    ELSE IF IsOutOfScope(event) THEN _handle_out_of_scope_transfer(st, event)
    ELSE IF IsExternalIn(event) THEN ProcessExternalTransferIn(st, event)
    ELSE ProcessGeneral(st, event)

\* the loop of process() over an event list, until it ends or raises
RECURSIVE ProcessAll(_, _)
ProcessAll(st, evs) ==
    IF evs = <<>> \/ st.status # "running" THEN st
    ELSE ProcessAll(ProcessEvent(st, Head(evs)), Tail(evs))

\* the call process(events) made again, on a newly constructed engine
SecondCall == ProcessAll(NewEngine(specific), events)

\* the AcquisitionLot objects of a list of acquisitions
LotsOf(st) == [k \in DOMAIN st.acquisitions |-> st.lots[st.acquisitions[k]]]

\* the result of a call (what it returned, or what it raised with) is the
\* result this call has
SameResult(call) ==
    /\ LotsOf(call) = LotsOf(Engine)
    /\ call.disposals = disposals
    /\ call.lot_moves = lot_moves
    /\ call.warnings = warnings
    /\ call.partial_result = partial_result
    /\ call.status = IF status = "returned" THEN "running" ELSE status

MaxTransfers == 4
MaxCalls == 2
window_minutes == 5

Transfer(kind, wallet, counterparty, signature, mint, amount_raw, ts) ==
    [id |-> Len(transfers) + 1, ts |-> ts, kind |-> kind, wallet |-> wallet,
     counterparty |-> counterparty, signature |-> signature,
     base_token |-> IF kind = "transfer_out"
                    THEN Token(mint, amount_raw * Pow10(IF mint = "USDC" THEN 3 ELSE 0))
                    ELSE NoToken,
     quote_token |-> IF kind = "transfer_in"
                     THEN Token(mint, amount_raw * Pow10(IF mint = "USDC" THEN 3 ELSE 0))
                     ELSE NoToken,
     tags |-> {}]

\* the transfers a caller passes: a transfer_out of 1000 nano-SOL from W1 at
\* minute 0 or 5 and a transfer_in to W2 at minute 5 or 6, with and without a
\* signature, and the variations of one or two fields of these: an untracked
\* wallet, the same wallet, a counterparty, another signature, "unknown",
\* another amount, another mint
Transfers ==
    {Transfer("transfer_out", "W1", NoCounterparty, sig, "SOL", 1000, ts) :
        sig \in {"", "sigA"}, ts \in {0, 5}}
    \cup {Transfer("transfer_out", "W3", NoCounterparty, sig, "SOL", 1000, 0) :
        sig \in {"", "sigA"}}
    \cup {Transfer("transfer_out", "W1", "W2", "", "SOL", 1000, 0)}
    \cup {Transfer("transfer_out", "W1", "W3", sig, "SOL", 1000, 0) :
        sig \in {"", "sigA"}}
    \cup {Transfer("transfer_out", "W1", NoCounterparty, sig, "SOL", 1000, 0) :
        sig \in {"sigB", "unknown"}}
    \cup {Transfer("transfer_in", "W2", NoCounterparty, sig, "SOL", 1000, ts) :
        sig \in {"", "sigA"}, ts \in {5, 6}}
    \cup {Transfer("transfer_in", w, NoCounterparty, "", "SOL", 1000, 5) :
        w \in {"W1", "W3"}}
    \cup {Transfer("transfer_in", "W2", cp, "", "SOL", 1000, 5) :
        cp \in {"W1", "W3"}}
    \cup {Transfer("transfer_in", "W2", NoCounterparty, "", "SOL", 1010, 5)}
    \cup {Transfer("transfer_in", "W2", NoCounterparty, sig, "SOL", 1011, 5) :
        sig \in {"", "sigA"}}
    \cup {Transfer("transfer_in", "W2", NoCounterparty, sig, "USDC", 1, 5) :
        sig \in {"", "sigA"}}
    \cup {Transfer("transfer_in", "W2", NoCounterparty, "sigB", "SOL", 1000, 5),
          Transfer("transfer_in", "W2", NoCounterparty, "unknown", "SOL", 1000, 6)}

TransferMatch(out_event, in_event) ==
    [out_event |-> out_event.id, in_event |-> in_event.id]

\* sorted(events, key=lambda ev: (ev.ts, ev.id))
sorted_events(evs) ==
    [i \in 1..Len(evs) |->
        evs[CHOOSE k \in 1..Len(evs) :
                Cardinality({j \in 1..Len(evs) :
                    \/ evs[j].ts < evs[k].ts
                    \/ evs[j].ts = evs[k].ts /\ evs[j].id < evs[k].id}) = i - 1]]

\* the usable signature of an event, "" for None
_signature(event) ==
    IF event.signature = "" \/ event.signature = "unknown" THEN "" ELSE event.signature

\* tolerance Decimal("0.00000001")
_amount_matches(a, b) == Abs(a - b) <= 10

_counterparty_matches(out_event, in_event) ==
    IF out_event.counterparty = NoCounterparty \/ in_event.counterparty = NoCounterparty
    THEN FALSE
    ELSE out_event.counterparty = in_event.wallet /\ in_event.counterparty = out_event.wallet

\* a reconciler that passes over the events a run has tagged already
CriteriaOfUntagged(out_event, in_event) ==
    /\ _amount_matches(out_event.base_token.amount, in_event.quote_token.amount)
    /\ out_event.wallet # in_event.wallet
    /\ (out_event.counterparty # NoCounterparty /\ in_event.counterparty # NoCounterparty)
          => _counterparty_matches(out_event, in_event)
    /\ "self_transfer" \notin out_event.tags \cup in_event.tags

\* what both phases ask of a transfer_out and a transfer_in of one mint
Criteria(out_event, in_event) ==
    /\ _amount_matches(out_event.base_token.amount, in_event.quote_token.amount)
    /\ out_event.wallet # in_event.wallet
    /\ (out_event.counterparty # NoCounterparty /\ in_event.counterparty # NoCounterparty)
          => _counterparty_matches(out_event, in_event)

\* a signature phase that forgets which transfer_in it has used
RECURSIVE MatchGroupReusing(_, _, _)
MatchGroupReusing(outs, ins, used_in) ==
    IF outs = <<>> THEN <<>>
    ELSE LET found == {i \in DOMAIN ins :
                          /\ Head(outs).base_token.mint = ins[i].quote_token.mint
                          /\ Criteria(Head(outs), ins[i])}
         IN  IF found = {} THEN MatchGroupReusing(Tail(outs), ins, used_in)
             ELSE LET first == CHOOSE i \in found : \A j \in found : i <= j
                  IN  <<TransferMatch(Head(outs), ins[first])>>
                      \o MatchGroupReusing(Tail(outs), ins, used_in)

\* for out_event in outs: for in_event in ins: ... break
RECURSIVE MatchGroup(_, _, _)
MatchGroup(outs, ins, used_in) ==
    IF outs = <<>> THEN <<>>
    ELSE LET found == {i \in DOMAIN ins :
                          /\ ins[i].id \notin used_in
                          /\ Head(outs).base_token.mint = ins[i].quote_token.mint
                          /\ Criteria(Head(outs), ins[i])}
         IN  IF found = {} THEN MatchGroup(Tail(outs), ins, used_in)
             ELSE LET first == CHOOSE i \in found : \A j \in found : i <= j
                  IN  <<TransferMatch(Head(outs), ins[first])>>
                      \o MatchGroup(Tail(outs), ins, used_in \cup {ins[first].id})

\* a reconciler with the windowed phase only
WindowOnly(rest, sorted, seen, wallet_set) == <<>>

\* the signature groups, in the order in which the sorted events open them
RECURSIVE SignaturePhase(_, _, _, _)
SignaturePhase(rest, sorted, seen, wallet_set) ==
    IF rest = <<>> THEN <<>>
    ELSE IF _signature(Head(rest)) = "" \/ _signature(Head(rest)) \in seen
    THEN SignaturePhase(Tail(rest), sorted, seen, wallet_set)
    ELSE MatchGroup(SelectSeq(sorted, LAMBDA ev :
                        /\ _signature(ev) = _signature(Head(rest))
                        /\ ev.kind = "transfer_out"
                        /\ ev.base_token # NoToken
                        /\ ev.wallet \in wallet_set),
                    SelectSeq(sorted, LAMBDA ev :
                        /\ _signature(ev) = _signature(Head(rest))
                        /\ ev.kind = "transfer_in"
                        /\ ev.quote_token # NoToken
                        /\ ev.wallet \in wallet_set),
                    {})
         \o SignaturePhase(Tail(rest), sorted, seen \cup {_signature(Head(rest))}, wallet_set)

\* a queue that keeps its old entries
PruneNothing(queue, event) == queue

\* while queue and event.ts - queue[0].ts > window: queue.popleft()
RECURSIVE Prune(_, _)
Prune(queue, event) ==
    IF queue # <<>> /\ event.ts - Head(queue).ts > window_minutes
    THEN Prune(Tail(queue), event) ELSE queue

\* the windowed phase over the sorted events; pending maps a mint to its queue
\* and matched_ids are the events of the signature matches
RECURSIVE WindowPhase(_, _, _, _)
WindowPhase(rest, pending, matched_ids, wallet_set) ==
    IF rest = <<>> THEN <<>>
    ELSE IF _signature(Head(rest)) # "" /\ Head(rest).id \in matched_ids
    THEN WindowPhase(Tail(rest), pending, matched_ids, wallet_set)
    ELSE IF Head(rest).kind = "transfer_out" /\ Head(rest).base_token # NoToken
    THEN IF Head(rest).counterparty # NoCounterparty /\ Head(rest).counterparty \notin wallet_set
         THEN WindowPhase(Tail(rest), pending, matched_ids, wallet_set)
         ELSE WindowPhase(Tail(rest),
                          [pending EXCEPT ![Head(rest).base_token.mint] = Append(@, Head(rest))],
                          matched_ids, wallet_set)
    ELSE IF Head(rest).kind = "transfer_in" /\ Head(rest).quote_token # NoToken
    THEN LET queue == Prune(pending[Head(rest).quote_token.mint], Head(rest))
             found == {idx \in DOMAIN queue : Criteria(queue[idx], Head(rest))}
         IN  IF found = {}
             THEN WindowPhase(Tail(rest),
                              [pending EXCEPT ![Head(rest).quote_token.mint] = queue],
                              matched_ids, wallet_set)
             ELSE LET match_index == CHOOSE i \in found : \A j \in found : i <= j
                  IN  <<TransferMatch(queue[match_index], Head(rest))>>
                      \o WindowPhase(Tail(rest),
                                     [pending EXCEPT ![Head(rest).quote_token.mint] =
                                         SubSeq(queue, 1, match_index - 1)
                                         \o SubSeq(queue, match_index + 1, Len(queue))],
                                     matched_ids, wallet_set)
    ELSE WindowPhase(Tail(rest), pending, matched_ids, wallet_set)

\* the list of matches the call returns
detect_self_transfers(evs, wallet_set) ==
    LET matches == SignaturePhase(sorted_events(evs), sorted_events(evs), {}, wallet_set)
    IN  matches \o WindowPhase(sorted_events(evs), [mint \in {"SOL", "USDC"} |-> <<>>],
                               {matches[k].out_event : k \in DOMAIN matches}
                               \cup {matches[k].in_event : k \in DOMAIN matches},
                               wallet_set)

\* normalization hands the caller one more transfer
AddTransfer ==
    /\ returned = <<>>
    /\ Len(transfers) < MaxTransfers
    /\ \E event \in Transfers : transfers' = Append(transfers, event)
    /\ UNCHANGED <<method, strict_lots, external_lot_tracking, specific, lots, ledger,
                   acquisitions, disposals, lot_moves, warnings, missing_lot_issues,
                   events, status, partial_result, returned>>

\* matches = detect_self_transfers(events, wallets): the matches are returned
\* and their events are tagged
DetectSelfTransfers ==
    /\ Len(returned) < MaxCalls
    /\ returned' = Append(returned, detect_self_transfers(transfers, Wallets))
    /\ transfers' = [k \in DOMAIN transfers |->
                        IF \E i \in DOMAIN returned'[Len(returned')] :
                              k \in {returned'[Len(returned')][i].out_event,
                                     returned'[Len(returned')][i].in_event}
                        THEN [transfers[k] EXCEPT !.tags = @ \cup {"self_transfer"}]
                        ELSE transfers[k]]
    /\ UNCHANGED <<method, strict_lots, external_lot_tracking, specific, lots, ledger,
                   acquisitions, disposals, lot_moves, warnings, missing_lot_issues,
                   events, status, partial_result>>

NextTransfers ==
    \/ AddTransfer
    \/ DetectSelfTransfers

\* the caller has constructed the engine and not yet called process()
InitTransfers ==
    /\ Fresh({"FIFO"})
    /\ strict_lots = TRUE
    /\ external_lot_tracking = FALSE

SpecTransfers == InitTransfers /\ [][NextTransfers]_vars

(***************************************************************************)
(* Properties of detect_self_transfers().                                  *)
(***************************************************************************)
\* the (out_event, in_event) pairs of the call-th call
Pairs(call) == {returned[call][k] : k \in DOMAIN returned[call]}

\* C16: a second detect_self_transfers call on the same event list and wallet
\* set, the events now carrying the self_transfer tags of the first call,
\* returns the same set of (out_event, in_event) pairs as the first.
C16_Idempotent ==
    Len(returned) = 2 => Pairs(2) = Pairs(1)

\* two calls were made, the first matched a pair and tagged its events
C16_Witness ==
    /\ Len(returned) = 2
    /\ Pairs(1) # {}
    /\ Pairs(2) = Pairs(1)
    /\ \A m \in Pairs(1) : "self_transfer" \in transfers[m.out_event].tags
                                               \cap transfers[m.in_event].tags
    /\ \E k \in DOMAIN transfers : transfers[k].tags = {}

\* C17: every match a call returns, from the signature phase or from the
\* windowed phase, has its out_event and its in_event in wallets of the
\* tracked set.
C17_MatchesTrackedWallets ==
    \A call \in DOMAIN returned : \A m \in Pairs(call) :
        /\ transfers[m.out_event].wallet \in Wallets
        /\ transfers[m.in_event].wallet \in Wallets

\* C18: every match pairs a transfer_out with a transfer_in of the same mint,
\* with amounts at most 1e-8 apart, in different wallets and, when both
\* events declare a counterparty, each naming the other's wallet; a pair
\* whose events do not share a usable signature has its transfer_in at or
\* after its transfer_out and at most the window later.
C18_MatchCriteria ==
    \A call \in DOMAIN returned : \A m \in Pairs(call) :
        LET out_event == transfers[m.out_event]
            in_event == transfers[m.in_event]
        IN  /\ out_event.kind = "transfer_out"
            /\ in_event.kind = "transfer_in"
            /\ out_event.base_token.mint = in_event.quote_token.mint
            /\ out_event.base_token.amount - in_event.quote_token.amount \in (0 - 10)..10
            /\ out_event.wallet # in_event.wallet
            /\ (out_event.counterparty # NoCounterparty
                   /\ in_event.counterparty # NoCounterparty)
                  => /\ out_event.counterparty = in_event.wallet
                     /\ in_event.counterparty = out_event.wallet
            /\ (out_event.signature \in {"", "unknown"}
                   \/ out_event.signature # in_event.signature)
                  => in_event.ts - out_event.ts \in 0..window_minutes

\* a pair without a signature matched at the edge of the window and of the
\* tolerance, next to an unmatched transfer_in of the exact amount that lies
\* outside the window of the transfer_out
C18_Witness ==
    /\ Len(returned) = 1
    /\ \E m \in Pairs(1) :
          /\ transfers[m.out_event].signature = ""
          /\ transfers[m.in_event].ts - transfers[m.out_event].ts = window_minutes
          /\ transfers[m.in_event].quote_token.amount
                - transfers[m.out_event].base_token.amount = 10
          /\ \E k \in DOMAIN transfers :
                /\ transfers[k].kind = "transfer_in"
                /\ transfers[k].tags = {}
                /\ transfers[k].wallet = transfers[m.in_event].wallet
                /\ transfers[k].signature = ""
                /\ transfers[k].quote_token = transfers[m.out_event].base_token
                /\ transfers[k].ts - transfers[m.out_event].ts > window_minutes

\* C19: in the matches of one call no event is a member of two matches, and
\* an event that had no tag when the call began carries self_transfer after
\* it exactly when it is a member of a match the call returned.
C19_OneMatchPerEvent ==
    [][returned' # returned =>
          LET matches == returned'[Len(returned')]
              Members(k) == {matches[k].out_event, matches[k].in_event}
          IN  /\ \A i, j \in DOMAIN matches : i # j => Members(i) \cap Members(j) = {}
              /\ \A k \in DOMAIN matches : matches[k].out_event # matches[k].in_event
              /\ \A e \in DOMAIN transfers :
                    transfers[e].tags = {} =>
                        ("self_transfer" \in transfers'[e].tags
                            <=> \E k \in DOMAIN matches : e \in Members(k))]_vars

\* the first call returned two matches, one of the signature phase and one of
\* the windowed phase; its four events are tagged
C19_Witness ==
    /\ Len(returned) = 1
    /\ Len(returned[1]) = 2
    /\ transfers[returned[1][1].out_event].signature = "sigA"
    /\ transfers[returned[1][2].out_event].signature = ""
    /\ \A e \in DOMAIN transfers : transfers[e].tags = {"self_transfer"}

\* the transfer_out o and the transfer_in i are in one signature group and
\* satisfy what the signature phase asks of a pair
SignatureCriteria(o, i) ==
    /\ transfers[o].kind = "transfer_out"
    /\ transfers[i].kind = "transfer_in"
    /\ transfers[o].signature \notin {"", "unknown"}
    /\ transfers[o].signature = transfers[i].signature
    /\ transfers[o].wallet \in Wallets
    /\ transfers[i].wallet \in Wallets
    /\ transfers[o].wallet # transfers[i].wallet
    /\ transfers[o].base_token.mint = transfers[i].quote_token.mint
    /\ transfers[o].base_token.amount - transfers[i].quote_token.amount \in (0 - 10)..10
    /\ (transfers[o].counterparty # NoCounterparty
           /\ transfers[i].counterparty # NoCounterparty)
          => /\ transfers[o].counterparty = transfers[i].wallet
             /\ transfers[i].counterparty = transfers[o].wallet

\* the call matched event e to an event of e's signature
MatchedInGroup(call, e) ==
    \E m \in Pairs(call) :
        /\ e \in {m.out_event, m.in_event}
        /\ transfers[m.out_event].signature = transfers[m.in_event].signature

\* C20: of a transfer_out and a transfer_in that satisfy the signature-phase
\* criteria inside one signature group, at least one is matched to a partner
\* of that group, and when neither has another such partner in the group the
\* two are matched to each other, whatever events of other signatures lie
\* inside the window.
C20_SignaturePriority ==
    \A call \in DOMAIN returned : \A o, i \in DOMAIN transfers :
        SignatureCriteria(o, i) =>
            /\ MatchedInGroup(call, o) \/ MatchedInGroup(call, i)
            /\ (\A e \in DOMAIN transfers :
                    /\ SignatureCriteria(o, e) => e = i
                    /\ SignatureCriteria(e, i) => e = o)
                  => [out_event |-> o, in_event |-> i] \in Pairs(call)

\* a transfer_out and a transfer_in of sigA are matched to each other although
\* a transfer_out of sigB, of the same mint and amount and from another wallet
\* than the transfer_in's, sorts before them inside the window and stays
\* unmatched
C20_Witness ==
    /\ Len(returned) = 1
    /\ \E o, i, x \in DOMAIN transfers :
          /\ SignatureCriteria(o, i)
          /\ [out_event |-> o, in_event |-> i] \in Pairs(1)
          /\ transfers[x].kind = "transfer_out"
          /\ transfers[x].signature = "sigB"
          /\ transfers[x].base_token = transfers[o].base_token
          /\ transfers[x].wallet # transfers[i].wallet
          /\ transfers[x].ts < transfers[o].ts
          /\ transfers[i].ts - transfers[x].ts <= window_minutes
          /\ transfers[x].tags = {}

\* C20 as stated: both events of such a pair are matched to a partner of
\* their group.
C20_AsStated ==
    \A call \in DOMAIN returned : \A o, i \in DOMAIN transfers :
        SignatureCriteria(o, i) => MatchedInGroup(call, o) /\ MatchedInGroup(call, i)

(***************************************************************************)
(* Further properties of process().                                        *)
(***************************************************************************)
\* C21: a step of process() removes no lot from the ledger and increases no
\* lot's remaining_qty, and every lot has fees_aud >= 0 in every state.
C21_LotsOnlyDrain ==
    [][/\ Len(lots') >= Len(lots)
       /\ \A i \in DOMAIN lots :
             /\ lots'[i].lot_id = lots[i].lot_id
             /\ lots'[i].remaining_qty <= lots[i].remaining_qty
       /\ \A key \in LedgerKeys : \A k \in DOMAIN ledger[key] :
             \E j \in DOMAIN ledger'[key] : ledger'[key][j] = ledger[key][k]
       /\ \A i \in DOMAIN lots' : ~FLess(lots'[i].fees_aud, FInt(0))]_vars

\* C22: every step handles one new event in the first branch that applies to
\* it, and all it adds belongs to that event: the in side of a match changes
\* nothing; the out side of a match is moved, whatever its counterparty, and is
\* not handled as an out-of-scope transfer; a step that adds a LotMoveRecord
\* adds no DisposalRecord and no lot that is an acquisition at a price; an
\* out-of-scope transfer adds no DisposalRecord and no lot.
C22_OneBranchPerEvent ==
    [][Handled =>
        LET e == NewEvent
            new_lots == NewRecords(lots, lots')
            new_disposals == NewRecords(disposals, disposals')
            new_moves == NewRecords(lot_moves, lot_moves')
            new_warnings == NewRecords(warnings, warnings')
            Moved(k) == new_lots[k].source_type \in {"lot_move", "synthetic_missing_basis"}
        IN  /\ Len(events') = Len(events) + 1
            /\ SubSeq(events', 1, Len(events)) = events
            /\ \A k \in DOMAIN new_lots : new_lots[k].source_event = e.id
            /\ \A k \in DOMAIN new_disposals : new_disposals[k].event_id = e.id
            /\ \A k \in DOMAIN new_moves : new_moves[k].tx_signature = e.id
            /\ IsMatchedIn(e) =>
                  UNCHANGED <<lots, ledger, acquisitions, disposals, lot_moves, warnings,
                              missing_lot_issues, status>>
            /\ IsMatchedOut(e) =>
                  /\ \A k \in DOMAIN new_warnings :
                         new_warnings[k].code # "external_transfer_out_no_lots"
                  /\ status' = "AttributeError" => ~FeePriced(e)
                  /\ status' = "running" =>
                         /\ Len(new_moves) = 1
                         /\ new_moves[1].dst_wallet = e.in_wallet
            /\ new_moves # <<>> =>
                  /\ IsMatchedOut(e)
                  /\ new_disposals = <<>>
                  /\ \A k \in DOMAIN new_lots : Moved(k)
            /\ IsOutOfScope(e) => new_disposals = <<>> /\ new_lots = <<>>
            /\ new_disposals # <<>> => IsGeneral(e)]_vars

\* the out side of a match whose counterparty is outside the tracked wallets
\* was moved to the wallet of the in side, and the in side came after it
C22_Witness ==
    /\ Len(events) = 3
    /\ IsMatchedOut(events[2]) /\ events[2].counterparty \notin Wallets
    /\ IsMatchedIn(events[3])
    /\ status = "running"
    /\ Len(lot_moves) = 1
    /\ lot_moves[1].tx_signature = 2 /\ lot_moves[1].dst_wallet = "W2"
    /\ disposals = <<>>
    /\ Len(lots) = 2

\* C23: when a step makes process() raise LotSelectionError under strict_lots,
\* partial_result holds the acquisitions, disposals and lot moves the call had
\* before the step, all of them of earlier events, and the step adds no lot
\* and changes no lot: lots and ledger are as before it.
C23_StrictRaiseKeepsPartial ==
    [][(Handled /\ strict_lots /\ status' = "LotSelectionError") =>
        /\ partial_result'.attached
        /\ partial_result'.acquisitions = acquisitions
        /\ partial_result'.disposals = disposals
        /\ partial_result'.lot_moves = lot_moves
        /\ \A k \in DOMAIN partial_result'.acquisitions :
               lots'[partial_result'.acquisitions[k]].source_event < NewEvent.id
        /\ \A k \in DOMAIN partial_result'.disposals :
               partial_result'.disposals[k].event_id < NewEvent.id
        /\ \A k \in DOMAIN partial_result'.lot_moves :
               partial_result'.lot_moves[k].tx_signature < NewEvent.id
        /\ Len(lots') = Len(lots)
        /\ \A i \in DOMAIN lots :
               /\ lots'[i].remaining_qty = lots[i].remaining_qty
               /\ lots'[i].fees_aud = lots[i].fees_aud
        /\ ledger' = ledger
        /\ acquisitions' = acquisitions /\ disposals' = disposals
        /\ lot_moves' = lot_moves]_vars

\* the third event failed under strict_lots after a buy and a disposal, which
\* the partial result holds
C23_Witness ==
    /\ strict_lots
    /\ status = "LotSelectionError"
    /\ Len(events) = 3
    /\ partial_result.attached
    /\ Len(partial_result.acquisitions) = 1
    /\ Len(partial_result.disposals) = 1
    /\ partial_result.disposals[1].event_id = 2
    /\ lots[1].remaining_qty > 0

\* C24: every DisposalRecord has the ts of its event, held_days is the number
\* of whole days from the acquisition the consumed lot goes back to (the event
\* that bought it, or the event its synthetic lot was made for, however many
\* self-transfers it has been through since) to the disposal, long_term is
\* held_days >= long_term_days, and held_days is never negative.
C24_HoldingPeriod ==
    \A k \in DOMAIN disposals :
        LET d == disposals[k]
            id == lots[d.lot].lot_id
            origin == IF id[1] = SyntheticMark THEN id[2] ELSE id[1]
            hours == d.ts - events[origin].ts
        IN  /\ d.ts = events[d.event_id].ts
            /\ lots[d.lot].ts = events[origin].ts
            /\ d.held_days * 24 <= hours
            /\ hours < (d.held_days + 1) * 24
            /\ d.long_term = (d.held_days >= long_term_days)
            /\ d.held_days >= 0

\* a lot bought by the first event is moved to W2 by the second, 364 days and
\* 12 hours later, and sold from there by the third, 365 days after the buy:
\* the disposal is long-term with 365 days, not short-term with 0
C24_Witness ==
    /\ Len(events) = 3
    /\ Len(disposals) = 1
    /\ disposals[1].event_id = 3 /\ disposals[1].wallet = "W2"
    /\ lots[disposals[1].lot].source_type = "lot_move"
    /\ lots[disposals[1].lot].source_event = 2
    /\ events[3].ts - events[2].ts < 24
    /\ disposals[1].held_days = long_term_days
    /\ disposals[1].long_term

\* C25: an event of the general handling that adds DisposalRecords or an
\* acquired lot has its fee_aud counted once: with a base token the fees_aud
\* of its DisposalRecords sum to fee_aud and the lot it acquires has fees_aud
\* 0; without a base token it adds no DisposalRecord and the lot it acquires
\* has fees_aud = fee_aud.
C25_FeeCountedOnce ==
    [][Handled =>
        LET e == NewEvent
            new_disposals == NewRecords(disposals, disposals')
            new_lots == NewRecords(lots, lots')
            acquired == SelectSeq(new_lots, LAMBDA l : l.source_type = e.kind)
        IN  ((IsGeneral(e) \/ IsExternalIn(e)) /\ (new_disposals # <<>> \/ acquired # <<>>))
            => /\ e.fee_aud # None
               /\ Len(acquired) <= 1
               /\ IF e.base_token # NoToken
                  THEN /\ FeesDisposed(new_disposals) = e.fee_aud
                       /\ \A k \in DOMAIN acquired : acquired[k].fees_aud = FInt(0)
                  ELSE /\ new_disposals = <<>>
                       /\ \A k \in DOMAIN acquired : acquired[k].fees_aud = FInt(e.fee_aud)]_vars

\* C26: a step that handles a self-transfer, a transfer out of scope or a
\* transfer in from outside under external_lot_tracking leaves the
\* remaining_qty of every mint, summed over all lots, as it was but for the
\* synthetic lot the step may add; and after every step that sum is the
\* quantity of the lots acquired (synthetic lots included, moved lots not)
\* minus the quantity disposed.
C26_MovesConserveQuantity ==
    [][Handled =>
        LET e == NewEvent
            Of(ls, mint, Qty(_), Counted(_)) ==
                Sum([k \in DOMAIN ls |->
                        IF ls[k].token_mint = mint /\ Counted(ls[k]) THEN Qty(ls[k]) ELSE 0])
            Rem(l) == l.remaining_qty
            Acq(l) == l.qty_acquired
            Dis(d) == d.qty_disposed
            All(l) == TRUE
            Synthetic(l) == l.source_type = "synthetic_missing_basis"
            NotMoved(l) == l.source_type # "lot_move"
        IN  \A mint \in Mints :
              /\ (IsMatchedOut(e) \/ IsOutOfScope(e) \/ (IsExternalIn(e) /\ external_lot_tracking))
                   => Of(lots', mint, Rem, All)
                        = Of(lots, mint, Rem, All)
                          + Of(NewRecords(lots, lots'), mint, Acq, Synthetic)
              /\ Of(lots', mint, Rem, All)
                   = Of(lots', mint, Acq, NotMoved) - Of(disposals', mint, Dis, All)]_vars

\* C27: in every state of the call no two lots of the ledger have the same
\* lot_id, whether they come from acquisitions, from self-transfers or from
\* synthetic recovery.
C27_LotIdsDistinct ==
    \A i \in DOMAIN lots : \A j \in DOMAIN lots :
        i # j => lots[i].lot_id # lots[j].lot_id

\* a self-transfer of two units found one bought unit and recovered the
\* other with a synthetic lot: the ledger holds the bought lot, the synthetic
\* lot and the two lots moved out of them
C27_Witness ==
    /\ Len(lots) = 4
    /\ Len(lot_moves) = 1
    /\ Len(lot_moves[1].lots_created) = 2
    /\ \E i \in DOMAIN lots : lots[i].source_type = "buy"
    /\ \E i \in DOMAIN lots : lots[i].source_type = "synthetic_missing_basis"
    /\ \A i \in DOMAIN lots : \A j \in DOMAIN lots :
           i # j => lots[i].lot_id # lots[j].lot_id

classify_event(event) ==
    IF event.role \in {"matched_out", "matched_in"} THEN "lot_move"
    ELSE CASE event.kind \in {"swap", "sell"} -> "disposal"
           [] event.kind \in {"buy", "transfer_in"} -> "acquisition"
           [] event.kind = "transfer_out" -> "out_of_scope"
           [] OTHER -> "ignore"

\* C29: an event that classify_event maps to lot_move or to out_of_scope adds
\* no DisposalRecord in its step of process().
C29_TransfersNotDisposed ==
    [][(Handled /\ classify_event(NewEvent) \in {"lot_move", "out_of_scope"})
        => NewRecords(disposals, disposals') = <<>>]_vars

\* a process() that began with self.ledger.reset()
process_after_reset(st) ==
    [st EXCEPT !.lots = <<>>, !.ledger = [k \in LedgerKeys |-> <<>>],
               !.acquisitions = <<>>, !.disposals = <<>>, !.lot_moves = <<>>,
               !.warnings = <<>>, !.missing_lot_issues = <<>>, !.status = "running",
               !.partial_result = NoPartialResult]

\* the start of a process() call on an engine that has been used: the
\* accumulators of the call are new, self.ledger is what the engine holds
process_again(st) ==
    [st EXCEPT !.acquisitions = <<>>, !.disposals = <<>>, !.lot_moves = <<>>,
               !.warnings = <<>>, !.missing_lot_issues = <<>>, !.status = "running",
               !.partial_result = NoPartialResult]

\* C30: every lot created so far is in the list of its (wallet, mint) in the
\* ledger, also after process() has returned or raised; and a sale of a
\* whole-unit token passed to a second process() call on the same engine is
\* allocated against the lots the first call left: if they cover it, it
\* consumes them and no other, and if they do not, a strict call raises with
\* the quantity they hold as available_qty.
C30_LedgerPersists ==
    /\ \A i \in DOMAIN lots :
          \E k \in DOMAIN ledger[<<lots[i].wallet, lots[i].token_mint>>] :
              ledger[<<lots[i].wallet, lots[i].token_mint>>][k] = i
    /\ status # "running" =>
          \A e \in {x \in Sells : x.base_token.mint = "TOKENX" /\ HasPrices(x)} :
              LET second == ProcessGeneral(process_again(Engine), e)
              IN  /\ Covers(e) =>
                        /\ second.status = "running"
                        /\ Len(second.lots) = Len(lots)
                        /\ QtyDisposed(second.disposals) = e.base_token.amount
                        /\ \A i \in DOMAIN lots :
                               second.lots[i].remaining_qty
                                   = lots[i].remaining_qty - DisposedFrom(i, second.disposals)
                  /\ (~Covers(e) /\ strict_lots) =>
                        /\ second.status = "LotSelectionError"
                        /\ Len(second.missing_lot_issues) = 1
                        /\ second.missing_lot_issues[1].available_qty = AvailableQty(e)

\* a strict call has raised at its third event and left one unit in a lot of
\* W1; a second call that sells one unit from W1 takes it from that lot
C30_Witness ==
    /\ status = "LotSelectionError"
    /\ Len(events) = 3
    /\ Len(lots) = 1
    /\ lots[1].wallet = "W1" /\ lots[1].token_mint = "TOKENX"
    /\ lots[1].remaining_qty = 1 /\ lots[1].qty_acquired = 2
    /\ \E e \in Sells :
          /\ e.wallet = "W1" /\ e.base_token = Token("TOKENX", 1) /\ HasPrices(e)
          /\ LET second == ProcessGeneral(process_again(Engine), e)
             IN  /\ second.status = "running"
                 /\ Len(second.disposals) = 1
                 /\ second.disposals[1].lot = 1
                 /\ second.lots[1].remaining_qty = 0
====
